---- MODULE Spec2Model ----
(***************************************************************************)
(* Density routing of bench markers (quaternionmedia/benchmark).           *)
(*                                                                         *)
(* The model follows src/src/markers.js (the partitioner _preGroup, the    *)
(* router _route, renderMarkers, addMarkersToGroup, applyMarkerFilter),    *)
(* the wiring of src/src/main.js (filter, search and import handlers),     *)
(* buildPredicate of filters.js and buildSearchPredicate of search.js.     *)
(* The cluster layer is a Leaflet.markercluster group: its greedy merge    *)
(* and its chunked insertion are modelled from the description the         *)
(* specification gives of the adapter and from the options the code sets   *)
(* (chunkedLoading, maxClusterRadius, disableClusteringAtZoom).            *)
(***************************************************************************)
EXTENDS Integers, Sequences, FiniteSets, TLC

\* ------------------------------------------------------------------ bounds

\* most features of the initial data set
MaxMarkers == 11
\* most completed area imports
MaxImports == 1
\* most deferred insertion batches waiting on a timer at once
MaxPending == 1
\* the adapter checks its time budget every ChunkSize markers of a batch
ChunkSize == 8

\* ------------------------------------------------- constants of markers.js

GRID_ZOOM == 13
GRID_CELL == 80
MIN_CLUSTER == 10
DISABLE_CLUSTERING_AT_ZOOM == 17

\* --------------------------------------------------------------- geometry

\* zoom levels the user moves the map between
Zooms == {12, 13}

\* the zoom at which a marker's coordinate is stored as whole pixels: the
\* deepest of Zooms
WorldZoom == CHOOSE z \in Zooms : \A y \in Zooms : z >= y

\* places, as pixel coordinates at WorldZoom.  At GRID_ZOOM SiteA, SiteB and
\* SiteC share one grid cell; SiteB lies 70 px and SiteC 50 px from SiteA;
\* SiteD is far from all of them.
SiteA == [x |-> 4, y |-> 4]
SiteB == [x |-> 74, y |-> 4]
SiteC == [x |-> 54, y |-> 4]
SiteD == [x |-> 400, y |-> 400]
Sites == {SiteA, SiteB, SiteC, SiteD}

RECURSIVE Pow2(_)
Pow2(n) == IF n <= 0 THEN 1 ELSE 2 * Pow2(n - 1)

\* map.project(latlng, zoom): pixel coordinates double with every zoom
\* level.  The point is the fraction (x / den, y / den), so that a zoom
\* below WorldZoom loses nothing.
Project(latlng, z) ==
  [x |-> latlng.x * Pow2(z - WorldZoom), y |-> latlng.y * Pow2(z - WorldZoom),
   den |-> Pow2(WorldZoom - z)]

\* den * den times the squared distance of two points of one zoom
DistSq(p, q) == (p.x - q.x) * (p.x - q.x) + (p.y - q.y) * (p.y - q.y)

\* the two points of one zoom are at most r pixels apart
Within(p, q, r) == DistSq(p, q) <= r * r * p.den * p.den

\* the maxClusterRadius option of the cluster group
MaxClusterRadius(z) == IF z >= 15 THEN 40 ELSE IF z >= 13 THEN 55 ELSE 70

\* ------------------------------------------------------- sequence helpers

Range(s) == {s[i] : i \in DOMAIN s}

RECURSIVE Flatten(_)
Flatten(ss) == IF ss = <<>> THEN <<>> ELSE Head(ss) \o Flatten(Tail(ss))

\* the distinct values of s in order of first appearance
RECURSIVE Distinct(_)
Distinct(s) ==
  IF s = <<>> THEN <<>>
  ELSE LET front == Distinct(SubSeq(s, 1, Len(s) - 1))
           last == s[Len(s)]
       IN IF last \in Range(front) THEN front ELSE Append(front, last)

\* ------------------------------------------------- strings (search terms)

LowerChar(c) == IF c = "O" THEN "o" ELSE IF c = "K" THEN "k" ELSE c
ToLowerCase(s) == [i \in DOMAIN s |-> LowerChar(s[i])]

RECURSIVE TrimStart(_)
TrimStart(s) == IF s # <<>> /\ Head(s) = " " THEN TrimStart(Tail(s)) ELSE s
RECURSIVE TrimEnd(_)
TrimEnd(s) ==
  IF s # <<>> /\ s[Len(s)] = " " THEN TrimEnd(SubSeq(s, 1, Len(s) - 1)) ELSE s
Trim(s) == TrimEnd(TrimStart(s))

Includes(s, q) ==
  \E i \in 0..Len(s) : i + Len(q) <= Len(s) /\ SubSeq(s, i + 1, i + Len(q)) = q

\* --------------------------------------------------------------- features

Props(id, name, condition) ==
  [id |-> id, name |-> name, condition |-> condition, material |-> "wood",
   backrest |-> TRUE, armrests |-> FALSE, accessible |-> FALSE,
   covered |-> FALSE, notes |-> <<>>, region |-> <<"k">>]

\* the kinds of feature of the model: (name, condition)
KindPlain == [name |-> <<"k">>, condition |-> "good"]
KindPoor == [name |-> <<"k">>, condition |-> "poor"]
KindOak == [name |-> <<"O", "k">>, condition |-> "good"]
KindFair == [name |-> <<"k">>, condition |-> "fair"]
KindUnknown == [name |-> <<"k">>, condition |-> "unknown"]
Kinds == {KindPlain, KindPoor, KindOak, KindFair, KindUnknown}

Feature(id, site, kind) ==
  [coordinates |-> site, properties |-> Props(id, kind.name, kind.condition)]

\* an initial data set of n features, ids 1..n: all at SiteA, or (spread)
\* the first half at SiteA and the rest at SiteB; the first one is poor, the
\* second one is named "Ok", the others are plain
InitKind(i) == IF i = 1 THEN KindPoor ELSE IF i = 2 THEN KindOak ELSE KindPlain
InitFeatures(n, spread) ==
  [i \in 1..n |->
     Feature(i, IF spread /\ 2 * i > n + 1 THEN SiteB ELSE SiteA, InitKind(i))]

\* the seed data set seen at ScenarioZoom: 14 benches, of which 9 in good
\* condition lie within 20 px of each other (5 at SiteA, 4 at SiteC) and 5
\* others (one poor, two fair, two unknown) lie more than 200 px from every
\* other bench
ScenarioZoom == 10
ScenarioSite(i) ==
  IF i <= 5 THEN SiteA
  ELSE IF i <= 9 THEN SiteC
  ELSE [x |-> 2000 * (i - 9), y |-> 4]
ScenarioKind(i) ==
  IF i = 2 THEN KindOak
  ELSE IF i <= 9 THEN KindPlain
  ELSE IF i = 10 THEN KindPoor
  ELSE IF i <= 12 THEN KindFair
  ELSE KindUnknown
ScenarioFeatures ==
  [i \in 1..14 |-> Feature(i, ScenarioSite(i), ScenarioKind(i))]

\* ---------------------------------------------------- filters.js, search.js

DefaultFilterState ==
  [condition |-> "all", material |-> "all", backrest |-> FALSE,
   armrests |-> FALSE, accessible |-> FALSE, covered |-> FALSE]

FilterStates ==
  {[DefaultFilterState EXCEPT !.condition = c] : c \in {"all", "good", "poor"}}

SearchTerms == {<<>>, <<"O", " ">>}

buildPredicate(state, props) ==
  IF state.condition # "all" /\ props.condition # state.condition THEN FALSE
  ELSE IF state.material # "all" /\ props.material # state.material THEN FALSE
  ELSE IF state.backrest /\ ~props.backrest THEN FALSE
  ELSE IF state.armrests /\ ~props.armrests THEN FALSE
  ELSE IF state.accessible /\ ~props.accessible THEN FALSE
  ELSE IF state.covered /\ ~props.covered THEN FALSE
  ELSE TRUE

buildSearchPredicateCaseSensitive(query, props) ==
  IF query = <<>> \/ Trim(query) = <<>> THEN TRUE
  ELSE LET q == Trim(ToLowerCase(query))
       IN \/ Includes(props.name, q)
          \/ Includes(props.notes, q)
          \/ Includes(props.region, q)

buildSearchPredicate(query, props) ==
  IF query = <<>> \/ Trim(query) = <<>> THEN TRUE
  ELSE LET q == Trim(ToLowerCase(query))
       IN \/ Includes(ToLowerCase(props.name), q)
          \/ Includes(ToLowerCase(props.notes), q)
          \/ Includes(ToLowerCase(props.region), q)

getCombinedPredicate(filterState, searchTerm, props) ==
  buildPredicate(filterState, props) /\ buildSearchPredicate(searchTerm, props)

\* ------------------------------------------------------------- markers.js

\* _buildEntry: a new marker object (serial) at the feature's coordinate
BuildEntry(feature, serial) ==
  [marker |-> [serial |-> serial, latlng |-> feature.coordinates],
   props |-> feature.properties]

\* the grid cell key of a marker
CellKey(m) ==
  LET p == Project(m.latlng, GRID_ZOOM)
  IN <<p.x \div (GRID_CELL * p.den), p.y \div (GRID_CELL * p.den)>>

\* the cells Map of _preGroup: keys in order of first insertion
CellKeys(markers) == Distinct([i \in DOMAIN markers |-> CellKey(markers[i])])

CellMembers(markers, key) == SelectSeq(markers, LAMBDA m : CellKey(m) = key)

\* _preGroup with the two branches tested independently, `<= MIN_CLUSTER` for
\* solo and `>= MIN_CLUSTER` for cluster: a cell of exactly MIN_CLUSTER
\* markers lands in both
PreGroupOverlap(markers) ==
  LET keys == CellKeys(markers)
      cells == [i \in DOMAIN keys |-> CellMembers(markers, keys[i])]
  IN [solo |-> Flatten([i \in DOMAIN cells |->
                 IF Len(cells[i]) <= MIN_CLUSTER THEN cells[i] ELSE <<>>]),
      cluster |-> Flatten([i \in DOMAIN cells |->
                 IF Len(cells[i]) >= MIN_CLUSTER THEN cells[i] ELSE <<>>])]

\* _preGroup with the threshold off by one: `cell.length <= MIN_CLUSTER`
PreGroupOffByOne(markers) ==
  LET keys == CellKeys(markers)
      cells == [i \in DOMAIN keys |-> CellMembers(markers, keys[i])]
  IN [solo |-> Flatten([i \in DOMAIN cells |->
                 IF Len(cells[i]) <= MIN_CLUSTER THEN cells[i] ELSE <<>>]),
      cluster |-> Flatten([i \in DOMAIN cells |->
                 IF Len(cells[i]) <= MIN_CLUSTER THEN <<>> ELSE cells[i]])]

\* _preGroup deciding as it goes: a marker is routed by the size its cell
\* has when the marker is pushed, not by the cell's final size
PreGroupStreaming(markers) ==
  LET before(i) == Cardinality({j \in 1..i : CellKey(markers[j]) = CellKey(markers[i])})
  IN [solo |-> SelectSeq(markers, LAMBDA m :
                 \E i \in DOMAIN markers : markers[i] = m /\ before(i) < MIN_CLUSTER),
      cluster |-> SelectSeq(markers, LAMBDA m :
                 \E i \in DOMAIN markers : markers[i] = m /\ before(i) >= MIN_CLUSTER)]

\* _preGroup with the threshold one too low: `cell.length < MIN_CLUSTER - 1`
PreGroupMinNine(markers) ==
  LET keys == CellKeys(markers)
      cells == [i \in DOMAIN keys |-> CellMembers(markers, keys[i])]
  IN [solo |-> Flatten([i \in DOMAIN cells |->
                 IF Len(cells[i]) < MIN_CLUSTER - 1 THEN cells[i] ELSE <<>>]),
      cluster |-> Flatten([i \in DOMAIN cells |->
                 IF Len(cells[i]) < MIN_CLUSTER - 1 THEN <<>> ELSE cells[i]])]

\* _preGroup(map, markers)
PreGroup(markers) ==
  LET keys == CellKeys(markers)
      cells == [i \in DOMAIN keys |-> CellMembers(markers, keys[i])]
  IN [solo |-> Flatten([i \in DOMAIN cells |->
                 IF Len(cells[i]) < MIN_CLUSTER THEN cells[i] ELSE <<>>]),
      cluster |-> Flatten([i \in DOMAIN cells |->
                 IF Len(cells[i]) < MIN_CLUSTER THEN <<>> ELSE cells[i]])]

\* --------------------------- the zoom-sized grid (markers.js of part_004)

\* _maxRadius(zoom)
MaxRadius(z) == IF z >= 15 THEN 40 ELSE IF z >= 13 THEN 55 ELSE 70

\* Math.floor(v / (r / Math.SQRT2)) for the pixel value v = x / den, x >= 0:
\* the k with k * r / sqrt(2) <= v < (k + 1) * r / sqrt(2)
FloorOverCellSize(x, den, r) ==
  CHOOSE k \in 0..((3 * x) \div (2 * r * den) + 1) :
    /\ k * k * r * r * den * den <= 2 * x * x
    /\ (k + 1) * (k + 1) * r * r * den * den > 2 * x * x

\* the key of marker m on the grid of cell size r / sqrt(2) at zoom z
GridCellOfRadius(m, r, z) ==
  LET p == Project(m.latlng, z)
  IN <<FloorOverCellSize(p.x, p.den, r), FloorOverCellSize(p.y, p.den, r)>>

\* the cell key of _preGroup: cellSize = _maxRadius(zoom) / Math.SQRT2 at
\* the map's zoom
CellKeyAtZoom(m, z) == GridCellOfRadius(m, MaxRadius(z), z)

\* _preGroup(map, markers) with map.getZoom() = z
PreGroupAtZoom(markers, z) ==
  LET keys == Distinct([i \in DOMAIN markers |-> CellKeyAtZoom(markers[i], z)])
      cells == [i \in DOMAIN keys |->
                  SelectSeq(markers, LAMBDA m : CellKeyAtZoom(m, z) = keys[i])]
  IN [solo |-> Flatten([i \in DOMAIN cells |->
                 IF Len(cells[i]) < MIN_CLUSTER THEN cells[i] ELSE <<>>]),
      cluster |-> Flatten([i \in DOMAIN cells |->
                 IF Len(cells[i]) < MIN_CLUSTER THEN <<>> ELSE cells[i]])]

\* ------------------------------------- the cluster adapter (markercluster)

\* addLayers on a chunked group works through a batch in order and may stop
\* for a timer at every ChunkSize-th marker: the offsets at which a pass
\* that starts after `from` can end.  A pass always ends at the end of the
\* batch when no further timer may be queued.
Stops(layers, from, queued) ==
  {Len(layers)} \cup
  {k \in (from + 1)..(Len(layers) - 1) : k % ChunkSize = 0 /\ queued < MaxPending}

\* one pass over layers[from+1..stop]: a marker the group already has is skipped
RECURSIVE InsertPass(_, _, _, _)
InsertPass(group, layers, from, stop) ==
  IF from >= stop THEN group
  ELSE LET m == layers[from + 1]
       IN InsertPass(IF m \in Range(group) THEN group ELSE Append(group, m),
                     layers, from + 1, stop)

\* clusterGroup.addLayers(layers), ending its first pass at offset `stop`
AddLayers(group, queue, layers, stop) ==
  [group |-> InsertPass(group, layers, 0, stop),
   queue |-> IF stop < Len(layers)
             THEN Append(queue, [layers |-> layers, offset |-> stop])
             ELSE queue]

\* the greedy merge at zoom z of markers in insertion order: a marker joins
\* the nearest cluster anchored within the radius, else forms a cluster with
\* the nearest single marker within the radius (anchored at that marker),
\* else stays single
Nearest(groups, idx, p, z) ==
  CHOOSE i \in idx : \A j \in idx :
    \/ DistSq(p, Project(groups[i].anchor, z)) < DistSq(p, Project(groups[j].anchor, z))
    \/ /\ DistSq(p, Project(groups[i].anchor, z)) = DistSq(p, Project(groups[j].anchor, z))
       /\ i <= j

RECURSIVE Greedy(_, _, _)
Greedy(markers, z, groups) ==
  IF markers = <<>> THEN groups
  ELSE LET m == Head(markers)
           p == Project(m.latlng, z)
           r == MaxClusterRadius(z)
           near == {i \in DOMAIN groups :
                      Within(p, Project(groups[i].anchor, z), r)}
           clusters == {i \in near : Cardinality(groups[i].members) >= 2}
           pick == IF clusters # {} THEN Nearest(groups, clusters, p, z)
                   ELSE Nearest(groups, near, p, z)
       IN IF near = {}
          THEN Greedy(Tail(markers), z,
                      Append(groups, [anchor |-> m.latlng, members |-> {m}]))
          ELSE Greedy(Tail(markers), z,
                      [groups EXCEPT ![pick].members = @ \cup {m}])

\* the count badges the cluster group shows at zoom z: one per merged group
BadgesOf(group, z) ==
  IF z >= DISABLE_CLUSTERING_AT_ZOOM THEN {}
  ELSE {g.members : g \in {h \in Range(Greedy(group, z, <<>>)) :
                              Cardinality(h.members) >= 2}}

\* ------------------------------------------------------------- the registry

\* registry.set(id, entry) on a Map: a known key keeps its place
RegistrySet(reg, entry) ==
  IF \E i \in DOMAIN reg : reg[i].props.id = entry.props.id
  THEN [i \in DOMAIN reg |->
          IF reg[i].props.id = entry.props.id THEN entry ELSE reg[i]]
  ELSE Append(reg, entry)

\* the merge written as an assignment, `registry = newReg`: the entries
\* replace the registry instead of being set into it
RegistryReplacedBy(reg, entries) == entries

RECURSIVE RegistrySetAll(_, _)
RegistrySetAll(reg, entries) ==
  IF entries = <<>> THEN reg
  ELSE RegistrySetAll(RegistrySet(reg, Head(entries)), Tail(entries))

RegistryIds(reg) == {reg[i].props.id : i \in DOMAIN reg}

\* applyMarkerFilter without the `if (predicate(props))` test
VisibleAll(reg, filterState, searchTerm) == [i \in DOMAIN reg |-> reg[i].marker]

\* the markers of the entries that satisfy the combined predicate, in order
Visible(reg, filterState, searchTerm) ==
  LET keep == SelectSeq(reg, LAMBDA e :
                getCombinedPredicate(filterState, searchTerm, e.props))
  IN [i \in DOMAIN keep |-> keep[i].marker]

\* ------------------------------------------------------------------ state

VARIABLES
  registry,           \* the registry Map, as entries in insertion order
  soloGroup,          \* the markers of the plain layer group
  clusterGroup,       \* the markers of the cluster group, in insertion order
  pending,            \* deferred insertion batches of the cluster group
  zoom,               \* map.getZoom()
  latestFilterState,  \* main.js
  latestSearchTerm,   \* main.js
  benchCount,         \* the number shown in #bench-count
  built,              \* how many marker objects _buildEntry has made
  imports,            \* how many area imports have completed
  layersFrom,         \* what touched the layers last: "renderMarkers",
                      \* "applyMarkerFilter", "timer" (a deferred batch);
                      \* or a call that threw: "renderThrew" (main() was
                      \* rejected), "routeThrew" (the error left the
                      \* listener), "routeThrewCaught" (the confirm handler
                      \* caught it)
  importPhase         \* the confirm handler of bbox-select.js: "idle";
                      \* "pending" while it awaits queryOverpass or
                      \* mergeFeatures; "cancelled" while it still awaits
                      \* them after the user has dismissed the panel

\* the count label's animation, the sidebar and the DOM side of one handle
VARIABLES
  countAnim,          \* animateBenchCount: the target of the running count-up,
                      \* or NoAnim
  isOpen,             \* sidebar.js
  sidebarHidden,      \* #sidebar has the class `hidden`
  sidebarContent,     \* the bench id rendered in #sidebar-content, 0 for none
  animIn,             \* running slide-in animations of the sidebar
  animOut,            \* running slide-out animations of the sidebar
  swaps,              \* bench ids of the running content swaps, oldest first
  lastAction,         \* the last user action on the sidebar: "none",
                      \* "activate" or "close"
  lastActivated,      \* the bench id of the last activation, 0 for none
  handleVia,          \* the layer that has the first bench's marker on the
                      \* map: "none", "solo" or "cluster" (expanded)
  handleAdds,         \* how often that marker has been added to the map
  keyListeners,       \* keydown listeners on its current .bench-marker element
  lastCalls           \* activation callbacks run by the last click or key
                      \* press on it, -1 before the first

uiVars == <<countAnim, isOpen, sidebarHidden, sidebarContent, animIn, animOut,
            swaps, lastAction, lastActivated, handleVia, handleAdds,
            keyListeners, lastCalls>>

\* the parts of the program around the router, each kept in one record
VARIABLES
  store,              \* store.js: the IndexedDB record and the running calls
  bbox,               \* bbox-select.js: the module state and the import panel
  search,             \* search.js: the input, the debounce timer, searchTerm
  overpass,           \* bbox-select.js: one run of _fetchOverpass
  sw,                 \* public/sw.js: the caches and the request in hand
  shown               \* main.js: one evaluation of the combined predicate

sideVars == <<store, bbox, search, overpass, sw, shown>>

vars == <<registry, soloGroup, clusterGroup, pending, zoom, latestFilterState,
          latestSearchTerm, benchCount, built, imports, layersFrom, importPhase,
          uiVars, sideVars>>

\* the calls followed: two of mergeFeatures, one of loadBenches
MergeCalls == {"m1", "m2"}
CallIds == MergeCalls \cup {"load"}

\* no record under RECORD_KEY
NoRecord == [present |-> FALSE, features |-> <<>>, cached_at |-> 0]
\* the record _writeToIDB puts
Record(features, now) ==
  [present |-> TRUE, features |-> features, cached_at |-> now]

\* a call that has not been made
NoCall ==
  [pc |-> "idle", input |-> <<>>, toAdd |-> <<>>, merged |-> <<>>,
   opened |-> FALSE, returned |-> FALSE, result |-> <<>>, source |-> "none", fetches |-> 0,
   before |-> NoRecord, at |-> 0, wrote |-> <<>>]

StoreWith(record) ==
  [record |-> record, now |-> 0, calls |-> [c \in CallIds |-> NoCall]]

\* store.js before any call, with an empty database
StoreIdle == StoreWith(NoRecord)

\* confirm-click handlers the model follows
MaxConfirms == 2
Handlers == 1..MaxConfirms

\* bbox-select.js after initBboxSelect: the module state, the confirm button,
\* the panel, and the position of every confirm handler
BboxIdle ==
  [drawMode |-> FALSE, dragging |-> FALSE, startLL |-> FALSE, rect |-> FALSE,
   bboxBounds |-> FALSE, mapDragging |-> TRUE,
   confirmDisabled |-> FALSE, confirmLabel |-> "import to map",
   panelHidden |-> TRUE, hidesPending |-> 0,
   handlers |-> [h \in Handlers |-> "none"],
   callbacks |-> 0, lastEvent |-> "none", ranCleanup |-> FALSE]
\* no listener has been notified yet
NoNotification ==
  [by |-> "none", term |-> "", at |-> 0, lastInputAt |-> 0, typed |-> "",
   escaped |-> FALSE]

\* search.js after the module has run: the input element, searchTerm, the
\* debounce timers that are set, and what has been typed and notified so far
SearchIdle ==
  [value |-> "", searchTerm |-> "", timers |-> {}, now |-> 0,
   lastInputAt |-> 0, typed |-> "", escaped |-> FALSE,
   runs |-> 0, timerNotifications |-> 0, last |-> NoNotification]
\* _fetchOverpass before it is called: its locals, the statuses received and
\* the delays waited so far
OverpassIdle ==
  [pc |-> "idle", attempt |-> 0, delay |-> 0, statuses |-> <<>>,
   waits |-> <<>>, outcome |-> "none"]
\* the classes of URL the fetch listener tells apart
CacheKinds == {"tile", "geojson", "manifest", "overpass", "shell"}

\* no response is cached for a request
NoEntry == [present |-> FALSE, dated |-> FALSE, date |-> 0, cachedAt |-> 0]

\* no fetch event has been handled
NoRequest ==
  [kind |-> "none", method |-> "GET", intercepted |-> FALSE,
   served |-> "none", waited |-> FALSE, refreshed |-> FALSE,
   cachedBefore |-> FALSE, datedBefore |-> FALSE, storedFor |-> 0,
   netFails |-> FALSE, hadFallback |-> FALSE]

\* public/sw.js after activation: empty caches, no background refresh
\* running, the clock in days
SwIdle ==
  [now |-> 0, caches |-> [k \in CacheKinds |-> NoEntry], refreshes |-> 0,
   last |-> NoRequest]

\* the combined predicate has not been asked about any bench
ShownIdle ==
  [asked |-> FALSE, state |-> DefaultFilterState, term |-> <<>>,
   props |-> Props(1, <<"k">>, "good"), visible |-> FALSE]

\* nothing has happened yet in the parts around the router
SideSettled ==
  /\ store = StoreIdle
  /\ bbox = BboxIdle
  /\ search = SearchIdle
  /\ overpass = OverpassIdle
  /\ sw = SwIdle
  /\ shown = ShownIdle

\* no count-up animation is running
NoAnim == -1

\* the sidebar is hidden and was never opened, the first bench's marker has
\* not been put on the map
SidebarSettled ==
  /\ isOpen = FALSE
  /\ sidebarHidden = TRUE
  /\ sidebarContent = 0
  /\ animIn = 0
  /\ animOut = 0
  /\ swaps = <<>>
  /\ lastAction = "none"
  /\ lastActivated = 0
  /\ handleVia = "none"
  /\ handleAdds = 0
  /\ keyListeners = 0
  /\ lastCalls = -1

\* the page at rest: the count-up has finished as well
UiSettled ==
  /\ countAnim = NoAnim
  /\ SidebarSettled

\* _route adding every marker to the solo group: `markers.forEach` in place
\* of `solo.forEach`
RouteAllSolo(markers, queue, stop) ==
  IF markers = <<>>
  THEN [solo |-> {}, cluster |-> <<>>, queue |-> queue]
  ELSE LET g == PreGroup(markers)
           added == IF g.cluster # <<>>
                    THEN AddLayers(<<>>, queue, g.cluster, stop)
                    ELSE [group |-> <<>>, queue |-> queue]
       IN [solo |-> Range(markers), cluster |-> added.group, queue |-> added.queue]

\* _route(map, markers, clusterGroup, soloGroup), the cluster group's first
\* insertion pass ending at `stop`: both groups are cleared, then refilled
Route(markers, queue, stop) ==
  IF markers = <<>>
  THEN [solo |-> {}, cluster |-> <<>>, queue |-> queue]
  ELSE LET g == PreGroup(markers)
           added == IF g.cluster # <<>>
                    THEN AddLayers(<<>>, queue, g.cluster, stop)
                    ELSE [group |-> <<>>, queue |-> queue]
       IN [solo |-> Range(g.solo), cluster |-> added.group, queue |-> added.queue]

\* the offsets at which the first insertion pass of _route(markers) can end
RouteStops(markers, queue) ==
  IF markers = <<>> THEN {0}
  ELSE Stops(PreGroup(markers).cluster, 0, Len(queue))

\* applyAndUpdateCount with applyMarkerFilter returning before _route when
\* nothing is visible: `if (!visible.length) return`
ApplyAndUpdateCountSkipEmpty(reg, filterState, searchTerm, queue) ==
  LET visible == Visible(reg, filterState, searchTerm)
  IN IF visible = <<>>
     THEN /\ soloGroup' = soloGroup
          /\ clusterGroup' = clusterGroup
          /\ pending' = queue
          /\ benchCount' = 0
          /\ layersFrom' = "applyMarkerFilter"
     ELSE \E stop \in RouteStops(visible, queue) :
            LET r == Route(visible, queue, stop)
            IN /\ soloGroup' = r.solo
               /\ clusterGroup' = r.cluster
               /\ pending' = r.queue
               /\ benchCount' = Len(visible)
               /\ layersFrom' = "applyMarkerFilter"

\* applyAndUpdateCount of main.js on registry `reg`: applyMarkerFilter, then
\* the count label
ApplyAndUpdateCount(reg, filterState, searchTerm, queue) ==
  LET visible == Visible(reg, filterState, searchTerm)
  IN \E stop \in RouteStops(visible, queue) :
       LET r == Route(visible, queue, stop)
       IN /\ soloGroup' = r.solo
          /\ clusterGroup' = r.cluster
          /\ pending' = r.queue
          /\ benchCount' = Len(visible)
          /\ layersFrom' = "applyMarkerFilter"

\* ---------------------------------------------------------------- actions

\* renderMarkers(map, features, onMarkerClick) as main() calls it, and the
\* initial values of main.js; z is the zoom the map ends at after the hash
\* restore or fitBounds
RenderMarkers(features, z) ==
    /\ LET entries == [i \in DOMAIN features |-> BuildEntry(features[i], i)]
           allMarkers == [i \in DOMAIN entries |-> entries[i].marker]
       IN \E stop \in RouteStops(allMarkers, <<>>) :
            LET r == Route(allMarkers, <<>>, stop)
            IN /\ registry = RegistrySetAll(<<>>, entries)
               /\ soloGroup = r.solo
               /\ clusterGroup = r.cluster
               /\ pending = r.queue
               /\ built = Len(features)
    /\ zoom = z
    /\ latestFilterState = DefaultFilterState
    /\ latestSearchTerm = <<>>
    /\ imports = 0
    /\ layersFrom = "renderMarkers"
    /\ importPhase = "idle"

\* the sizes of the initial data set: none, one, two, one below the
\* threshold, the threshold, and the largest
InitSizes == {0, 1, 2, MIN_CLUSTER - 1, MIN_CLUSTER, MaxMarkers}

\* main() on the loaded features
Init ==
  /\ \/ \E n \in InitSizes, spread \in BOOLEAN, z \in Zooms :
          RenderMarkers(InitFeatures(n, spread), z)
     \/ RenderMarkers(ScenarioFeatures, ScenarioZoom)
  /\ benchCount = built
  /\ UiSettled
  /\ SideSettled

\* onFilterChange listener of main.js
FilterChange ==
  /\ UNCHANGED <<uiVars, sideVars>>
  /\ \E fs \in FilterStates :
       /\ latestFilterState' = fs
       /\ ApplyAndUpdateCount(registry, fs, latestSearchTerm, pending)
       /\ UNCHANGED <<registry, zoom, latestSearchTerm, built, imports, importPhase>>

\* onSearchChange listener of main.js
SearchChange ==
  /\ UNCHANGED <<uiVars, sideVars>>
  /\ \E term \in SearchTerms :
       /\ latestSearchTerm' = term
       /\ ApplyAndUpdateCount(registry, latestFilterState, term, pending)
       /\ UNCHANGED <<registry, zoom, latestFilterState, built, imports, importPhase>>

\* mergeFeatures(newFeatures) of store.js: all of them when IndexedDB cannot
\* be opened, else those whose id the cached record does not hold
MergeFeatures(dbOpens, existingIds, newFeatures) ==
  IF ~dbOpens THEN newFeatures
  ELSE SelectSeq(newFeatures, LAMBDA f : f.properties.id \notin existingIds)

\* the candidates nodesToFeatures can deliver for the drawn area: one plain
\* bench at SiteA with a new id, or one at SiteD under the id of the first
\* registry entry (a bench that is on the map already)
ImportBatches(reg) ==
  {<<Feature(built + 1, SiteA, KindPlain)>>}
  \cup {<<Feature(reg[i].props.id, SiteD, KindPlain)>> : i \in DOMAIN reg \cap {1}}

\* the initBboxSelect callback of main.js: addMarkersToGroup, merge of the
\* partial registry, applyAndUpdateCount
OnFeaturesImported(newFeatures) ==
  LET entries == [i \in DOMAIN newFeatures |->
                    BuildEntry(newFeatures[i], built + i)]
      newMarkers == [i \in DOMAIN entries |-> entries[i].marker]
      partial == RegistrySetAll(<<>>, entries)
  IN \E stop \in Stops(newMarkers, 0, Len(pending)) :
       LET staged == AddLayers(clusterGroup, pending, newMarkers, stop)
       IN /\ registry' = RegistrySetAll(registry, partial)
          /\ built' = built + Len(newFeatures)
          /\ ApplyAndUpdateCount(registry', latestFilterState,
                                 latestSearchTerm, staged.queue)

\* click on the confirm button: the button is disabled and the handler
\* awaits queryOverpass
ImportConfirm ==
  /\ UNCHANGED <<uiVars, sideVars>>
  /\ importPhase = "idle"
  /\ imports < MaxImports
  /\ importPhase' = "pending"
  /\ UNCHANGED <<registry, soloGroup, clusterGroup, pending, zoom,
                 latestFilterState, latestSearchTerm, benchCount, built,
                 imports, layersFrom>>

\* _cleanup() from the cancel button, the Escape key or the draw-mode
\* toggle while the confirm handler is awaiting: the rectangle and the panel
\* go, the button is re-enabled, the awaited promise is left alone
ImportCancel ==
  /\ UNCHANGED <<uiVars, sideVars>>
  /\ importPhase = "pending"
  /\ importPhase' = "cancelled"
  /\ UNCHANGED <<registry, soloGroup, clusterGroup, pending, zoom,
                 latestFilterState, latestSearchTerm, benchCount, built,
                 imports, layersFrom>>

\* the phases in which the confirm handler is suspended at an await
InFlight == {"pending", "cancelled"}

\* the confirm handler with the callback invoked on the candidates before
\* `await mergeFeatures(candidates)`, which then throws
ImportFailedAfterCallback ==
  /\ UNCHANGED <<uiVars, sideVars>>
  /\ importPhase \in InFlight
  /\ \E newFeatures \in ImportBatches(registry) : OnFeaturesImported(newFeatures)
  /\ importPhase' = "idle"
  /\ UNCHANGED <<zoom, latestFilterState, latestSearchTerm, imports>>

\* queryOverpass or mergeFeatures throws: the catch branch of the confirm
\* handler, which touches the button only
ImportFailed ==
  /\ UNCHANGED <<uiVars, sideVars>>
  /\ importPhase \in InFlight
  /\ importPhase' = "idle"
  /\ UNCHANGED <<registry, soloGroup, clusterGroup, pending, zoom,
                 latestFilterState, latestSearchTerm, benchCount, built,
                 imports, layersFrom>>

\* the confirm handler runs to its end: mergeFeatures returns the added
\* features (the cached record holding the ids of the registry when
\* IndexedDB opens) and the callback is invoked when there are any
ImportDone ==
  /\ UNCHANGED <<uiVars, sideVars>>
  /\ importPhase \in InFlight
  /\ \E candidates \in ImportBatches(registry), dbOpens \in BOOLEAN :
       LET added == MergeFeatures(dbOpens, RegistryIds(registry), candidates)
       IN IF added # <<>>
          THEN OnFeaturesImported(added)
          ELSE UNCHANGED <<registry, soloGroup, clusterGroup, pending,
                           benchCount, built, layersFrom>>
  /\ imports' = imports + 1
  /\ importPhase' = "idle"
  /\ UNCHANGED <<zoom, latestFilterState, latestSearchTerm>>

\* the user zooms the map; main.js has no zoomend listener
ZoomEnd ==
  /\ UNCHANGED <<uiVars, sideVars>>
  /\ \E z \in Zooms \ {zoom} :
       /\ zoom' = z
       /\ UNCHANGED <<registry, soloGroup, clusterGroup, pending, latestFilterState,
                      latestSearchTerm, benchCount, built, imports, layersFrom,
                      importPhase>>

\* the timer of a deferred insertion batch fires: the next pass over it
ChunkTimer ==
  /\ UNCHANGED <<uiVars, sideVars>>
  /\ pending # <<>>
  /\ LET b == Head(pending)
     IN \E stop \in Stops(b.layers, b.offset, Len(pending) - 1) :
          /\ clusterGroup' = InsertPass(clusterGroup, b.layers, b.offset, stop)
          /\ pending' = IF stop < Len(b.layers)
                        THEN Append(Tail(pending), [b EXCEPT !.offset = stop])
                        ELSE Tail(pending)
  /\ layersFrom' = "timer"
  /\ UNCHANGED <<registry, soloGroup, zoom, latestFilterState, latestSearchTerm,
                 benchCount, built, imports, importPhase>>

Next ==
  \/ FilterChange
  \/ SearchChange
  \/ ImportConfirm
  \/ ImportCancel
  \/ ImportFailed
  \/ ImportDone
  \/ ZoomEnd
  \/ ChunkTimer

Spec == Init /\ [][Next]_vars

\* ------------------------------------------------- failing calls (faults)

\* a feature without geometry.coordinates: the destructuring in _buildEntry
\* throws a TypeError on it
MalformedFeature(id) == [properties |-> Props(id, <<"k">>, "good")]
WellFormed(feature) == "coordinates" \in DOMAIN feature

\* how many features of the list _buildEntry turns into entries before it
\* throws
BuiltBeforeThrow(features) ==
  (CHOOSE i \in DOMAIN features :
     /\ ~WellFormed(features[i])
     /\ \A j \in 1..(i - 1) : WellFormed(features[j])) - 1

\* renderMarkers on a list with a malformed feature: _buildEntry throws in
\* the loop, before the layers are added to the map; main() is rejected and
\* logged, no listener is registered and the count label is never set
RenderMarkersThrows(features, z) ==
  /\ \E i \in DOMAIN features : ~WellFormed(features[i])
  /\ registry = <<>>
  /\ soloGroup = {}
  /\ clusterGroup = <<>>
  /\ pending = <<>>
  /\ benchCount = 0
  /\ built = BuiltBeforeThrow(features)
  /\ zoom = z
  /\ latestFilterState = DefaultFilterState
  /\ latestSearchTerm = <<>>
  /\ imports = 0
  /\ layersFrom = "renderThrew"
  /\ importPhase = "idle"

\* main() on the loaded features, one of which may be malformed
InitFaults ==
  \/ Init
  \/ /\ \E n \in InitSizes \ {0}, z \in Zooms :
          RenderMarkersThrows(
            Append(InitFeatures(n - 1, FALSE), MalformedFeature(n)), z)
     /\ UiSettled
     /\ SideSettled

\* applyAndUpdateCount when the projection throws inside _preGroup: _route
\* has cleared both layers, nothing is added, the count label is not reached
ApplyAndUpdateCountThrows(reg, filterState, searchTerm, queue, how) ==
  /\ Visible(reg, filterState, searchTerm) # <<>>
  /\ soloGroup' = {}
  /\ clusterGroup' = <<>>
  /\ pending' = queue
  /\ benchCount' = benchCount
  /\ layersFrom' = how

\* the listeners exist: main() was not rejected by the render
Registered == layersFrom # "renderThrew"

\* onFilterChange listener, the route throwing: nothing between _route and
\* the event loop catches
FilterChangeThrows ==
  /\ Registered
  /\ UNCHANGED <<uiVars, sideVars>>
  /\ \E fs \in FilterStates :
       /\ latestFilterState' = fs
       /\ ApplyAndUpdateCountThrows(registry, fs, latestSearchTerm, pending,
                                    "routeThrew")
       /\ UNCHANGED <<registry, zoom, latestSearchTerm, built, imports, importPhase>>

\* onSearchChange listener, the route throwing
SearchChangeThrows ==
  /\ Registered
  /\ UNCHANGED <<uiVars, sideVars>>
  /\ \E term \in SearchTerms :
       /\ latestSearchTerm' = term
       /\ ApplyAndUpdateCountThrows(registry, latestFilterState, term, pending,
                                    "routeThrew")
       /\ UNCHANGED <<registry, zoom, latestFilterState, built, imports, importPhase>>

\* the import callback, the route throwing after the markers were staged and
\* the registry merged: the catch branch of the confirm handler logs it
ImportDoneRouteThrows ==
  /\ Registered
  /\ UNCHANGED <<uiVars, sideVars>>
  /\ importPhase \in InFlight
  /\ \E candidates \in ImportBatches(registry), dbOpens \in BOOLEAN :
       LET added == MergeFeatures(dbOpens, RegistryIds(registry), candidates)
           entries == [i \in DOMAIN added |-> BuildEntry(added[i], built + i)]
           newMarkers == [i \in DOMAIN entries |-> entries[i].marker]
           partial == RegistrySetAll(<<>>, entries)
       IN /\ added # <<>>
          /\ \E stop \in Stops(newMarkers, 0, Len(pending)) :
               LET staged == AddLayers(clusterGroup, pending, newMarkers, stop)
               IN /\ registry' = RegistrySetAll(registry, partial)
                  /\ built' = built + Len(added)
                  /\ ApplyAndUpdateCountThrows(registry', latestFilterState,
                       latestSearchTerm, staged.queue, "routeThrewCaught")
  /\ imports' = imports + 1
  /\ importPhase' = "idle"
  /\ UNCHANGED <<zoom, latestFilterState, latestSearchTerm>>

\* the import callback on a new bench followed by a malformed feature:
\* addMarkersToGroup throws in its loop, before addLayers and before the
\* registry merge; the catch branch of the confirm handler logs it
ImportDoneMalformed ==
  /\ Registered
  /\ UNCHANGED <<uiVars, sideVars>>
  /\ importPhase \in InFlight
  /\ built' = built + BuiltBeforeThrow(
                 <<Feature(built + 1, SiteA, KindPlain), MalformedFeature(built + 2)>>)
  /\ imports' = imports + 1
  /\ importPhase' = "idle"
  /\ UNCHANGED <<registry, soloGroup, clusterGroup, pending, zoom,
                 latestFilterState, latestSearchTerm, benchCount, layersFrom>>

NextFaults ==
  \/ Registered /\ Next
  \/ FilterChangeThrows
  \/ SearchChangeThrows
  \/ ImportDoneRouteThrows
  \/ ImportDoneMalformed

SpecFaults == InitFaults /\ [][NextFaults]_vars

\* ------------------------------------------------------------- properties

\* the markers the last trigger handed to _route, and their partition
RouteInput == Visible(registry, latestFilterState, latestSearchTerm)
Partition == PreGroup(RouteInput)

\* _route has returned and no timer has touched the layers since
AtReturn == layersFrom # "timer"

\* the badges on screen
Badges == BadgesOf(clusterGroup, zoom)

\* the marker lists partition is called with in the reachable states: the
\* visible set of the registry under every filter state and search term
PartitionInputs ==
  {Visible(registry, fs, term) : fs \in FilterStates, term \in SearchTerms}

\* how many markers of M share m's grid cell
CellCount(M, m) ==
  LET key == CellKey(m)
  IN Cardinality({i \in DOMAIN M : CellKey(M[i]) = key})

\* C1: after a route whose insertion into the cluster layer is complete,
\* every count badge on screen stands for at least MIN_CLUSTER markers.
C1_BadgesAtLeastMinCluster ==
  (AtReturn /\ pending = <<>>) =>
    \A b \in Badges : Cardinality(b) >= MIN_CLUSTER

\* C2: after a route whose insertion is complete, the members of every grid
\* cell routed to the cluster layer are all in one and the same badge.
C2_CellNeverSplit ==
  (AtReturn /\ pending = <<>>) =>
    \A m1 \in Range(Partition.cluster), m2 \in Range(Partition.cluster) :
      CellKey(m1) = CellKey(m2) => \E b \in Badges : {m1, m2} \subseteq b

\* C3: partition returns every input marker in exactly one of solo and
\* cluster, and nothing else.
C3_PartitionExhaustiveDisjoint ==
  \A M \in PartitionInputs :
    LET g == PreGroup(M)
    IN /\ Range(g.solo) \cup Range(g.cluster) = Range(M)
       /\ Range(g.solo) \cap Range(g.cluster) = {}
       /\ Len(g.solo) + Len(g.cluster) = Len(M)

\* a partition with both parts non-empty is reached
C3_Witness ==
  /\ Partition.solo # <<>>
  /\ Partition.cluster # <<>>

\* C4: a marker goes to cluster iff its grid cell holds at least MIN_CLUSTER
\* of the input markers, otherwise to solo; so a single marker is solo, 9
\* co-located markers are solo and 10 co-located markers are all cluster.
C4_ThresholdRouting ==
  \A M \in PartitionInputs :
    LET g == PreGroup(M)
    IN /\ \A i \in DOMAIN M :
            /\ M[i] \in Range(g.cluster) <=> CellCount(M, M[i]) >= MIN_CLUSTER
            /\ M[i] \in Range(g.solo) <=> CellCount(M, M[i]) < MIN_CLUSTER
       /\ Len(M) = 1 => g.cluster = <<>>
       /\ (Len(M) = 9 /\ \A i \in DOMAIN M : M[i].latlng = M[1].latlng)
            => g.cluster = <<>> /\ Range(g.solo) = Range(M)
       /\ (Len(M) = 10 /\ \A i \in DOMAIN M : M[i].latlng = M[1].latlng)
            => g.solo = <<>> /\ Range(g.cluster) = Range(M)

\* nine co-located benches were rendered, a tenth was imported at the same
\* place, and all ten are now handed to the cluster layer
C4_Witness ==
  /\ imports = 1
  /\ Len(RouteInput) = 10
  /\ \A i \in DOMAIN RouteInput : RouteInput[i].latlng = SiteA
  /\ Partition.solo = <<>>
  /\ Range(clusterGroup) = Range(RouteInput)

\* C5: any two markers that share a grid cell are at most
\* maxClusterRadius(zoom) pixels apart at the map's current zoom.
C5_CellMatesWithinRadius ==
  \A m1 \in Range(RouteInput), m2 \in Range(RouteInput) :
    CellKey(m1) = CellKey(m2) =>
      Within(Project(m1.latlng, zoom), Project(m2.latlng, zoom),
             MaxClusterRadius(zoom))

\* membership of both layers is exactly the partition of the last trigger's
\* visible set, and no marker is in both layers
LayersMatchPartition ==
  /\ soloGroup = Range(Partition.solo)
  /\ Range(clusterGroup) = Range(Partition.cluster)
  /\ soloGroup \cap Range(clusterGroup) = {}

\* C6: when route returns, the solo layer holds exactly partition.solo and
\* the cluster layer exactly partition.cluster, with no marker of an earlier
\* call left and none in both layers.
C6_RouteExactMembership == AtReturn => LayersMatchPartition

\* the step is a second _route on the same marker set at the same zoom,
\* right after a _route returned
RerouteSameInputs ==
  /\ AtReturn
  /\ layersFrom' = "applyMarkerFilter"
  /\ registry' = registry
  /\ latestFilterState' = latestFilterState
  /\ latestSearchTerm' = latestSearchTerm
  /\ zoom' = zoom

\* C7: routing the same marker set at the same zoom twice in a row leaves
\* both layers with the same membership after the second call as after the
\* first.
C7_RouteIdempotent ==
  [][RerouteSameInputs =>
       /\ soloGroup' = soloGroup
       /\ Range(clusterGroup') = Range(clusterGroup)]_vars

\* C8: once all deferred insertion started by a burst of triggers has
\* finished, the layers hold exactly the partition of the visible set of the
\* last trigger, no marker is in both layers and none is left over from a
\* superseded call.
C8_BurstLeavesLastPartition == pending = <<>> => LayersMatchPartition

\* C9: after applyMarkerFilter returns, every registry entry that satisfies
\* the predicate is in exactly one layer and every other entry is in none.
C9_VisibleInExactlyOneLayer ==
  layersFrom = "applyMarkerFilter" =>
    \A i \in DOMAIN registry :
      LET m == registry[i].marker
          inSolo == m \in soloGroup
          inCluster == m \in Range(clusterGroup)
      IN IF getCombinedPredicate(latestFilterState, latestSearchTerm,
                                 registry[i].props)
         THEN inSolo # inCluster
         ELSE ~inSolo /\ ~inCluster

\* C10: the set of registry ids never shrinks, and every step that is not a
\* completed import (filter, search, zoom, insertion timer) leaves the
\* registry as it was.
C10_RegistryGrowthOnly ==
  [][/\ RegistryIds(registry) \subseteq RegistryIds(registry')
     /\ imports' = imports => registry' = registry]_vars

\* an import, a filter change and a search change have all acted on a
\* registry of several entries
C10_Witness ==
  /\ imports = 1
  /\ Len(registry) >= 2
  /\ latestFilterState.condition = "good"
  /\ latestSearchTerm # <<>>

\* what holds of C6, C8 and C9 when the adapter never defers: after a route
\* that left nothing queued the layers match the partition exactly
RouteExactWhenNothingQueued ==
  (AtReturn /\ pending = <<>>) => LayersMatchPartition

\* what holds of C7 when the adapter never defers: a second route on the same
\* inputs, neither call leaving anything queued, changes no layer
RerouteSameWhenNothingQueued ==
  [][(RerouteSameInputs /\ pending = <<>> /\ pending' = <<>>) =>
       /\ soloGroup' = soloGroup
       /\ clusterGroup' = clusterGroup]_vars

\* C11: after every zoom-end event the membership of both layers is the
\* partition of the visible set computed at the new zoom.
C11_ZoomEndReroutes ==
  [][zoom' # zoom =>
       LET visible == Visible(registry', latestFilterState', latestSearchTerm')
           atNewZoom == PreGroupAtZoom(visible, zoom')
       IN /\ soloGroup' = Range(atNewZoom.solo)
          /\ Range(clusterGroup') = Range(atNewZoom.cluster)]_vars

\* what the code does at a zoom-end: no layer, queue or count changes
ZoomEndLeavesLayers ==
  [][zoom' # zoom =>
       UNCHANGED <<registry, soloGroup, clusterGroup, pending, benchCount,
                   layersFrom>>]_vars

\* C12: at every zoom the map takes, the grid the partitioner buckets the
\* visible markers on is the grid sized by the adapter's merge radius at
\* that zoom (cell size maxClusterRadius(zoom) / sqrt 2, at that zoom).
C12_PartitionerRadiusIsAdapterRadius ==
  \A m \in Range(RouteInput) :
    CellKey(m) = GridCellOfRadius(m, MaxClusterRadius(zoom), zoom)

\* the markers applyMarkerFilter routes under a predicate every entry
\* satisfies
AllMarkers(reg) == [i \in DOMAIN reg |-> reg[i].marker]

\* applyMarkerFilter three times in a row from the current state, with an
\* always-true, an always-false and an always-true predicate, the first
\* insertion passes ending at s1 and s3: the layers after the first and
\* after the third call
RoundTrip(s1, s3) ==
  LET all == AllMarkers(registry)
      first == Route(all, pending, s1)
      second == Route(<<>>, first.queue, 0)
      third == Route(all, second.queue, s3)
  IN [first |-> first, second |-> second, third |-> third]

RoundTripStops ==
  {<<s1, s3>> \in (0..Len(registry)) \X (0..Len(registry)) :
     LET all == AllMarkers(registry)
     IN /\ s1 \in RouteStops(all, pending)
        /\ s3 \in RouteStops(all, Route(<<>>, Route(all, pending, s1).queue, 0).queue)}

\* C13: always-true, always-false, always-true leaves both layers with the
\* membership they had after the first application.
C13_FilterRoundTrip ==
  \A st \in RoundTripStops :
    LET rt == RoundTrip(st[1], st[2])
    IN /\ rt.third.solo = rt.first.solo
       /\ Range(rt.third.cluster) = Range(rt.first.cluster)

\* what holds of C13 when no call of the round trip defers insertion
RoundTripWhenNothingQueued ==
  \A st \in RoundTripStops :
    LET rt == RoundTrip(st[1], st[2])
    IN (rt.first.queue = pending /\ rt.third.queue = rt.second.queue) =>
         /\ rt.third.solo = rt.first.solo
         /\ rt.third.cluster = rt.first.cluster
         /\ rt.second.solo = {} /\ rt.second.cluster = <<>>

\* M at zoom z is the marker set of the end-to-end scenario: 14 markers, 9
\* of them within 20 px of each other, the 5 others each more than 200 px
\* from every other marker
ScenarioGeometry(M, z) ==
  /\ Len(M) = 14
  /\ LET P == [i \in DOMAIN M |-> Project(M[i].latlng, z)]
         dense == {i \in DOMAIN M :
                     \E j \in DOMAIN M \ {i} : Within(P[i], P[j], 20)}
     IN /\ Cardinality(dense) = 9
        /\ \A i \in dense, j \in dense : Within(P[i], P[j], 20)
        /\ \A i \in DOMAIN M \ dense :
              \A j \in DOMAIN M \ {i} : ~Within(P[i], P[j], 200)

\* a route of the scenario's 14 markers at the scenario's zoom has returned
ScenarioRouted ==
  /\ AtReturn
  /\ zoom = ScenarioZoom
  /\ ScenarioGeometry(RouteInput, zoom)

\* C14 as stated: the scenario yields one cluster badge of count 9 and 5
\* individually rendered markers.
C14_ScenarioOneBadgeOfNine ==
  ScenarioRouted =>
    /\ Cardinality(Badges) = 1
    /\ \A b \in Badges : Cardinality(b) = 9
    /\ Cardinality(soloGroup) = 5

\* C14, amended: with MIN_CLUSTER = 10 the 9 dense markers are below the
\* threshold, so the scenario yields 14 individually rendered markers, an
\* empty cluster layer and no badge.
C14_ScenarioAllSolo ==
  ScenarioRouted =>
    /\ soloGroup = Range(RouteInput)
    /\ Cardinality(soloGroup) = 14
    /\ clusterGroup = <<>>
    /\ Badges = {}

\* the scenario was routed by applyMarkerFilter (a filter or search event
\* that shows all 14 again)
C14_Witness ==
  /\ ScenarioRouted
  /\ layersFrom = "applyMarkerFilter"

\* C15: when the visible set holds fewer than MIN_CLUSTER markers, routing
\* leaves the cluster layer empty and every visible marker in the solo
\* layer; filtering the scenario to condition = poor leaves 1 solo marker.
C15_FewVisibleAllSolo ==
  /\ (AtReturn /\ Len(RouteInput) < MIN_CLUSTER) =>
       /\ clusterGroup = <<>>
       /\ soloGroup = Range(RouteInput)
  /\ ( /\ AtReturn
       /\ registry = [i \in 1..14 |-> BuildEntry(ScenarioFeatures[i], i)]
       /\ latestFilterState.condition = "poor"
       /\ latestSearchTerm = <<>> ) =>
       /\ Cardinality(soloGroup) = 1
       /\ clusterGroup = <<>>

\* the scenario filtered to condition = poor
C15_Witness ==
  /\ layersFrom = "applyMarkerFilter"
  /\ registry = [i \in 1..14 |-> BuildEntry(ScenarioFeatures[i], i)]
  /\ latestFilterState.condition = "poor"
  /\ latestSearchTerm = <<>>
  /\ Cardinality(soloGroup) = 1

\* C16: two visible markers 50 px apart at zoom 13 are in separate cells
\* of the partitioner when the map is at zoom 13 and in one cell when the
\* map is at zoom 12 or below.
C16_ZoomSensitivity ==
  \A m1 \in Range(RouteInput), m2 \in Range(RouteInput) :
    LET p1 == Project(m1.latlng, 13)
        p2 == Project(m2.latlng, 13)
    IN DistSq(p1, p2) = 50 * 50 * p1.den * p1.den =>
         /\ zoom = 13 => CellKey(m1) # CellKey(m2)
         /\ zoom <= 12 => CellKey(m1) = CellKey(m2)

\* C17: routing an empty marker list leaves both layers empty, whatever
\* they held before, and the partition of an empty list is two empty lists.
C17_EmptyRouteEmptiesLayers ==
  /\ (AtReturn /\ RouteInput = <<>>) => (soloGroup = {} /\ clusterGroup = <<>>)
  /\ PreGroup(<<>>) = [solo |-> <<>>, cluster |-> <<>>]
  /\ \A s \in RouteStops(<<>>, pending) :
       LET r == Route(<<>>, pending, s)
       IN r.solo = {} /\ r.cluster = <<>> /\ r.queue = pending

\* applyMarkerFilter has routed an empty visible set over a registry of ten
\* or more entries while an insertion batch was still queued
C17_Witness ==
  /\ layersFrom = "applyMarkerFilter"
  /\ RouteInput = <<>>
  /\ Len(registry) >= MIN_CLUSTER
  /\ pending # <<>>

\* the list s back to front, and with its first element moved to the end
Reverse(s) == [i \in DOMAIN s |-> s[Len(s) + 1 - i]]
Rotate(s) == IF s = <<>> THEN s ELSE Append(Tail(s), Head(s))

\* the indexes of M that partition sends to solo
SoloIndexes(M) ==
  LET solo == Range(PreGroup(M).solo)
  IN {i \in DOMAIN M : M[i] \in solo}

\* C18: partition returns the same solo set and the same cluster set for
\* the same markers in another order, and routes by position alone: two
\* lists with the same positions are split at the same indexes, whatever
\* the layers and the queue hold.
C18_PartitionOrderIndependent ==
  /\ \A M \in PartitionInputs :
       LET g == PreGroup(M)
       IN \A N \in {Reverse(M), Rotate(M)} :
            LET h == PreGroup(N)
            IN /\ Range(h.solo) = Range(g.solo)
               /\ Range(h.cluster) = Range(g.cluster)
  /\ \A M \in PartitionInputs, N \in PartitionInputs :
       [i \in DOMAIN M |-> M[i].latlng] = [i \in DOMAIN N |-> N[i].latlng]
         => SoloIndexes(M) = SoloIndexes(N)

\* a visible set with a dense and a sparse cell, partitioned by
\* applyMarkerFilter while both layers hold markers
C18_Witness ==
  /\ layersFrom = "applyMarkerFilter"
  /\ Len(Partition.cluster) >= MIN_CLUSTER
  /\ Partition.solo # <<>>
  /\ clusterGroup # <<>>
  /\ soloGroup # {}

\* a marker is waiting in a queued insertion batch of the cluster layer
Queued(m) ==
  \E k \in DOMAIN pending :
    \E j \in (pending[k].offset + 1)..Len(pending[k].layers) :
      pending[k].layers[j] = m

C20_FailedImportChangesNothing ==
  [][(importPhase \in InFlight /\ importPhase' = "idle" /\ imports' = imports) =>
       UNCHANGED <<registry, soloGroup, clusterGroup, pending, benchCount,
                   built>>]_vars

\* an import failed after filter and search had changed the layers, and the
\* layers still hold markers
C20_Witness ==
  /\ importPhase = "idle"
  /\ imports = 0
  /\ layersFrom = "applyMarkerFilter"
  /\ latestFilterState.condition = "good"
  /\ soloGroup # {}

\* C21: an import the user cancelled while the Overpass query or the store
\* merge was in flight adds nothing: when its handler ends, the registry,
\* both layers and the adapter's queue are as they were.
C21_CancelledImportAddsNothing ==
  [][(importPhase = "cancelled" /\ importPhase' = "idle") =>
       UNCHANGED <<registry, soloGroup, clusterGroup, pending>>]_vars

\* C22: an import never overwrites an existing registry entry: every entry
\* of the registry is the same entry after every step, so every feature the
\* callback receives has an id that is not yet a key.
C22_ImportNeverOverwrites ==
  [][\A i \in DOMAIN registry : registry'[i] = registry[i]]_vars

\* the markers _buildEntry makes in the step are all markers of entries of
\* the registry after it
ImportedInRegistry ==
  \A serial \in (built + 1)..built' :
    \E i \in DOMAIN registry' : registry'[i].marker.serial = serial

\* the layers after the step match the partition of the visible set after it
LayersMatchPartitionAfter ==
  LET g == PreGroup(Visible(registry', latestFilterState', latestSearchTerm'))
  IN /\ soloGroup' = Range(g.solo)
     /\ Range(clusterGroup') = Range(g.cluster)
     /\ soloGroup' \cap Range(clusterGroup') = {}

\* C23: after a completed import every imported feature is in the registry
\* and the layers hold exactly the partition of the registry entries that
\* satisfy the combined predicate, no marker in both.
C23_ImportLeavesPartition ==
  [][built' > built => (ImportedInRegistry /\ LayersMatchPartitionAfter)]_vars

\* what holds of C23 whatever the adapter defers: the imported features are
\* in the registry, and the layers match the partition when the import
\* leaves nothing queued
ImportExactWhenNothingQueued ==
  [][built' > built =>
       /\ ImportedInRegistry
       /\ pending' = <<>> => LayersMatchPartitionAfter]_vars

\* C24: a routing attempt that fails part-way leaves both layers with the
\* membership they had before the call.
C24_FailedRouteKeepsLayers ==
  [][layersFrom' \in {"routeThrew", "routeThrewCaught"} =>
       (soloGroup' = soloGroup /\ clusterGroup' = clusterGroup)]_vars

\* C25: no error raised inside partition or route escapes into the event
\* loop, whichever trigger invoked applyMarkerFilter.
C25_NoRouteErrorEscapes == layersFrom # "routeThrew"

\* every marker built so far is the marker of a registry entry
RenderedInRegistry ==
  \A serial \in 1..built :
    \E i \in DOMAIN registry : registry[i].marker.serial = serial

\* C26: a malformed feature stops neither renderMarkers nor
\* addMarkersToGroup from delivering the well-formed features of its batch:
\* before any import has run, every marker the initial render built is the
\* marker of a registry entry.
C26_WellFormedFeaturesLand == imports = 0 => RenderedInRegistry

\* the same for addMarkersToGroup: every marker built by an import is the
\* marker of a registry entry when the call is over
ImportedFeaturesLand == [][built' > built => ImportedInRegistry]_vars

\* ---------------------------------------------------------------------
\* The sidebar (sidebar.js, animations.js) and the activation of a handle
\* (_buildEntry of markers.js).  The markers are those of a small render;
\* the handle followed is the marker of the first registry entry.
\* ---------------------------------------------------------------------

\* animations of the sidebar that may run at the same time
MaxAnims == 2
\* additions of the followed marker to the map
MaxAdds == 3

\* anime() calls on the sidebar whose `complete` has not run yet
RunningAnims == animIn + animOut + Len(swaps)

\* the bench whose handle is followed
HandleId == registry[1].props.id

\* marker.on('click', ...) is called once when the entry is built: one
\* handler, however often the marker has been added to a layer
ClickHandlers(adds) == 1

\* the second 'add' handler attaches one keydown listener to the
\* .bench-marker element of the icon; Leaflet drops a marker's icon when the
\* marker leaves the map and creates a new one when it is added again, so
\* the element it finds carries no listener yet
ListenersAfterAdd(before) == 1

\* callbacks run by a key press.  On the .bench-marker element the keydown
\* listeners run (Enter and Space alike) and preventDefault() keeps the key
\* from reaching Leaflet as a keypress.  The icon element around it is a
\* tab stop of its own (Leaflet's `keyboard` option, left at its default):
\* there no listener of markers.js runs, Leaflet ignores Space, and whether
\* Enter becomes a 'click' depends on the Leaflet release.
KeyCalls(focus, key, listeners) ==
  IF focus = "bench-marker" THEN {listeners}
  ELSE IF key = "Enter" THEN {0, ClickHandlers(handleAdds)}
  ELSE {0}

\* openSidebar(props, latlng)
OpenSidebar(id) ==
  /\ IF isOpen
     THEN /\ swaps' = Append(swaps, id)
          /\ UNCHANGED <<sidebarContent, sidebarHidden, animIn>>
     ELSE /\ sidebarContent' = id
          /\ sidebarHidden' = FALSE
          /\ animIn' = animIn + 1
          /\ UNCHANGED swaps
  /\ UNCHANGED <<isOpen, animOut>>

\* closeSidebar()
CloseSidebar ==
  IF ~isOpen
  THEN UNCHANGED <<isOpen, sidebarHidden, sidebarContent, animIn, animOut, swaps>>
  ELSE /\ animOut' = animOut + 1
       /\ UNCHANGED <<isOpen, sidebarHidden, sidebarContent, animIn, swaps>>

\* the main state does not change while the user works the sidebar
MainUnchanged ==
  UNCHANGED <<registry, soloGroup, clusterGroup, pending, zoom,
              latestFilterState, latestSearchTerm, benchCount, built, imports,
              layersFrom, importPhase, countAnim, sideVars>>

\* the activation callback main.js passes to renderMarkers, as far as the
\* sidebar goes
OnMarkerClick(id) ==
  /\ OpenSidebar(id)
  /\ lastAction' = "activate"
  /\ lastActivated' = id

\* a click on the marker of another bench
Activate ==
  /\ RunningAnims < MaxAnims
  /\ \E i \in DOMAIN registry \ {1} : OnMarkerClick(registry[i].props.id)
  /\ MainUnchanged
  /\ UNCHANGED <<handleVia, handleAdds, keyListeners, lastCalls>>

\* a routing call or the expansion of a cluster puts the marker on the map:
\* both 'add' handlers of _buildEntry run
HandleAdd ==
  /\ handleVia = "none"
  /\ handleAdds < MaxAdds
  /\ \E via \in {"solo", "cluster"} : handleVia' = via
  /\ handleAdds' = handleAdds + 1
  /\ keyListeners' = ListenersAfterAdd(keyListeners)
  /\ MainUnchanged
  /\ UNCHANGED <<isOpen, sidebarHidden, sidebarContent, animIn, animOut, swaps,
                 lastAction, lastActivated, lastCalls>>

\* clearLayers(), or the cluster collapsing, takes the marker off the map
HandleRemove ==
  /\ handleVia # "none"
  /\ handleVia' = "none"
  /\ keyListeners' = 0
  /\ MainUnchanged
  /\ UNCHANGED <<isOpen, sidebarHidden, sidebarContent, animIn, animOut, swaps,
                 lastAction, lastActivated, handleAdds, lastCalls>>

\* the callbacks of one user event on the handle: every one of them opens
\* the sidebar for the handle's bench
Activations(calls) ==
  /\ lastCalls' = calls
  /\ IF calls > 0
     THEN OnMarkerClick(HandleId)
     ELSE UNCHANGED <<isOpen, sidebarHidden, sidebarContent, animIn, animOut,
                      swaps, lastAction, lastActivated>>

\* a click on the marker while it is on the map
HandleClick ==
  /\ handleVia # "none"
  /\ RunningAnims < MaxAnims
  /\ Activations(ClickHandlers(handleAdds))
  /\ MainUnchanged
  /\ UNCHANGED <<handleVia, handleAdds, keyListeners>>

\* Enter or Space while the marker has the keyboard focus
HandleKeyPress ==
  /\ handleVia # "none"
  /\ RunningAnims < MaxAnims
  /\ \E focus \in {"bench-marker", "icon"}, key \in {"Enter", " "} :
       \E calls \in KeyCalls(focus, key, keyListeners) : Activations(calls)
  /\ MainUnchanged
  /\ UNCHANGED <<handleVia, handleAdds, keyListeners>>

\* the close button (reachable while the sidebar is displayed) or Escape
CloseRequest ==
  /\ RunningAnims < MaxAnims
  /\ \E via \in {"button", "escape"} : via = "button" => ~sidebarHidden
  /\ CloseSidebar
  /\ lastAction' = "close"
  /\ MainUnchanged
  /\ UNCHANGED <<lastActivated, handleVia, handleAdds, keyListeners, lastCalls>>

\* `complete` of animateSidebarIn
SlideInComplete ==
  /\ animIn > 0
  /\ animIn' = animIn - 1
  /\ isOpen' = TRUE
  /\ MainUnchanged
  /\ UNCHANGED <<sidebarHidden, sidebarContent, animOut, swaps, lastAction,
                 lastActivated, handleVia, handleAdds, keyListeners, lastCalls>>

\* `complete` of animateSidebarOut
SlideOutComplete ==
  /\ animOut > 0
  /\ animOut' = animOut - 1
  /\ sidebarHidden' = TRUE
  /\ isOpen' = FALSE
  /\ MainUnchanged
  /\ UNCHANGED <<sidebarContent, animIn, swaps, lastAction, lastActivated,
                 handleVia, handleAdds, keyListeners, lastCalls>>

\* `complete` of the fade-out of animateSidebarContentSwap: swapFn() renders
\* the bench; the swaps end in the order they began
SwapComplete ==
  /\ swaps # <<>>
  /\ sidebarContent' = Head(swaps)
  /\ swaps' = Tail(swaps)
  /\ MainUnchanged
  /\ UNCHANGED <<isOpen, sidebarHidden, animIn, animOut, lastAction,
                 lastActivated, handleVia, handleAdds, keyListeners, lastCalls>>

\* the benches of the page the sidebar is exercised on
UiBenches == 2

InitUi ==
  /\ \E z \in Zooms : RenderMarkers(InitFeatures(UiBenches, FALSE), z)
  /\ benchCount = built
  /\ UiSettled
  /\ SideSettled

NextUi ==
  \/ Activate
  \/ HandleAdd
  \/ HandleRemove
  \/ HandleClick
  \/ HandleKeyPress
  \/ CloseRequest
  \/ SlideInComplete
  \/ SlideOutComplete
  \/ SwapComplete

SpecUi == InitUi /\ [][NextUi]_vars

\* every click and every key press on the followed handle ran the
\* activation callback once
ActivatedOnce == lastCalls \in {-1, 1}

\* C27: each click, and each Enter or Space key press on a focused marker,
\* invokes the activation callback exactly once, whether the handle is in
\* the solo layer or in an expanded cluster and however often it has been
\* removed and added again.
C27_ActivationExactlyOnce == ActivatedOnce

\* the part of it that holds: while the handle is on the map, whatever the
\* layer and the number of additions, one click handler is registered and
\* one keydown listener sits on its .bench-marker element
OneListenerWhileOnMap ==
  handleVia # "none" =>
    (ClickHandlers(handleAdds) = 1 /\ keyListeners = 1)

\* no animation of the sidebar is running
SidebarQuiet == animIn = 0 /\ animOut = 0 /\ swaps = <<>>

\* C29: once all animations have completed, the sidebar is visible and
\* shows the last activated bench if the last user action was an
\* activation, and is hidden if it was a close request.
C29_SidebarFollowsLastAction ==
  SidebarQuiet =>
    /\ lastAction = "activate" =>
         (~sidebarHidden /\ sidebarContent = lastActivated)
    /\ lastAction = "close" => sidebarHidden

\* ---------------------------------------------------------------------
\* The count label during the count-up main() starts after the render
\* (animateBenchCount of animations.js): the filter and search listeners
\* are registered while the animation is still running.
\* ---------------------------------------------------------------------

\* a frame of the count-up: `update` writes the current value to the label,
\* whatever a listener has written there since the last frame; the last
\* frame writes the target, the number of features loaded
BenchCountFrame ==
  /\ countAnim # NoAnim
  /\ \E val \in {0, countAnim} :
       /\ benchCount' = val
       /\ countAnim' = IF val = countAnim THEN NoAnim ELSE countAnim
  /\ UNCHANGED <<registry, soloGroup, clusterGroup, pending, zoom,
                 latestFilterState, latestSearchTerm, built, imports,
                 layersFrom, importPhase>>
  /\ UNCHANGED <<isOpen, sidebarHidden, sidebarContent, animIn, animOut, swaps,
                 lastAction, lastActivated, handleVia, handleAdds,
                 keyListeners, lastCalls>>
  /\ UNCHANGED sideVars

\* main() up to the registration of the listeners: the count-up has shown
\* its first frame
InitCount ==
  /\ \E n \in InitSizes, z \in Zooms : RenderMarkers(InitFeatures(n, FALSE), z)
  /\ benchCount = 0
  /\ countAnim = built
  /\ SidebarSettled
  /\ SideSettled

NextCount ==
  \/ FilterChange
  \/ SearchChange
  \/ ChunkTimer
  \/ BenchCountFrame

SpecCount == InitCount /\ [][NextCount]_vars

\* the label shows the number of registry entries the combined predicate
\* accepts
LabelShowsVisible ==
  benchCount = Len(Visible(registry, latestFilterState, latestSearchTerm))

\* C28: after every filter or search change the count label shows the
\* number of registry entries satisfying the combined predicate and keeps
\* that value until the next change: the count-up never overwrites it.
C28_CountLabelFollowsFilter ==
  layersFrom = "applyMarkerFilter" => LabelShowsVisible

\* the part of it that holds: the label follows every change made after the
\* count-up has ended
LabelFollowsAfterCountUp ==
  [][(countAnim = NoAnim /\ layersFrom' = "applyMarkerFilter")
       => LabelShowsVisible']_vars

\* ---------------------------------------------------------------------
\* A data set in which two features carry the same id: renderMarkers sets
\* both entries into the registry under that id and routes both markers.
\* ---------------------------------------------------------------------

\* the first n - 1 benches, followed by a second feature with the id of
\* the first, at another site
DuplicateIdFeatures(n) ==
  Append(InitFeatures(n - 1, FALSE), Feature(1, SiteD, KindPlain))

InitDuplicate ==
  /\ \E n \in InitSizes \ {0, 1}, z \in Zooms :
       RenderMarkers(DuplicateIdFeatures(n), z)
  /\ benchCount = built
  /\ UiSettled
  /\ SideSettled

SpecDuplicate == InitDuplicate /\ [][Next]_vars

\* the markers on the map
DisplayedMarkers == soloGroup \cup Range(clusterGroup)

\* every displayed marker is the marker of a registry entry
DisplayedInRegistry ==
  \A m \in DisplayedMarkers :
    \E i \in DOMAIN registry : registry[i].marker = m

\* no marker is displayed twice
DisplayedOnce ==
  \A m \in DisplayedMarkers :
    /\ ~(m \in soloGroup /\ m \in Range(clusterGroup))
    /\ Cardinality({k \in DOMAIN clusterGroup : clusterGroup[k] = m}) <= 1

\* C30: every marker in the solo layer or the cluster layer is the marker
\* of a current registry entry and no two displayed markers carry the same
\* feature id (registry entries have distinct ids, so two displayed markers
\* of the registry share an id only if one marker is displayed twice),
\* also after a render or an import whose features repeat an id.
C30_DisplayedAreRegistryMarkers == DisplayedInRegistry /\ DisplayedOnce

\* ---------------------------------------------------------------------
\* store.js: the IndexedDB record of the benches, mergeFeatures and
\* loadBenches.  A feature is its id; each `await` of a call is a step, so
\* calls interleave where the code yields.
\* ---------------------------------------------------------------------

\* STALE_MS, in hours
STALE_HOURS == 4
\* the clock, in hours
MaxClock == 5

\* the features of ./data/benches.geojson
NetworkFeatures == <<1, 2>>
\* the candidates an import hands to mergeFeatures
MergeInputs == {<<3>>, <<2, 3>>, <<3, 4>>}

\* the ids of a feature list
IdsOf(features) == Range(features)

\* mergeFeatures, lines 67-68: the new features whose id is not cached
ToAdd(existing, newFeatures) ==
  SelectSeq(newFeatures, LAMBDA f : f \notin IdsOf(existing))

\* the calls that have begun and not ended
Running(st) == {c \in CallIds : st.calls[c].pc \notin {"idle", "done"}}

\* the rest of the state does not change while the store works
OutsideStore ==
  UNCHANGED <<registry, soloGroup, clusterGroup, pending, zoom,
              latestFilterState, latestSearchTerm, benchCount, built, imports,
              layersFrom, importPhase, uiVars, bbox, search, overpass, sw,
              shown>>

\* mergeFeatures up to `await _openDB()`: when the database does not open
\* the call returns its input
MergeStart(c) ==
  /\ store.calls[c].pc = "idle"
  /\ \E input \in MergeInputs, dbOpens \in BOOLEAN :
       store' = [store EXCEPT !.calls[c] =
         IF dbOpens
         THEN [@ EXCEPT !.pc = "opened", !.input = input,
                        !.before = store.record, !.opened = TRUE]
         ELSE [@ EXCEPT !.pc = "done", !.input = input,
                        !.before = store.record,
                        !.returned = TRUE, !.result = input]]
  /\ OutsideStore

\* `await _readFromIDB(db)` has delivered the record: toAdd and merged are
\* computed from it, and the call returns when nothing is new
MergeRead(c) ==
  /\ store.calls[c].pc = "opened"
  /\ LET existing == store.record.features
         toAdd == ToAdd(existing, store.calls[c].input)
     IN store' = [store EXCEPT !.calls[c] =
          IF toAdd = <<>>
          THEN [@ EXCEPT !.pc = "done", !.returned = TRUE, !.result = <<>>]
          ELSE [@ EXCEPT !.pc = "writing", !.toAdd = toAdd,
                         !.merged = existing \o toAdd]]
  /\ OutsideStore

\* `await _writeToIDB(db, merged, metadata)`, then `return toAdd`
MergeWrite(c) ==
  /\ store.calls[c].pc = "writing"
  /\ store' = [store EXCEPT
       !.record = Record(store.calls[c].merged, store.now),
       !.calls[c] = [@ EXCEPT !.pc = "done", !.returned = TRUE,
                              !.result = store.calls[c].toAdd]]
  /\ OutsideStore

StaleAtFourHours(record, now) == now - record.cached_at >= STALE_HOURS
\* the record is older than STALE_MS
Stale(record, now) == now - record.cached_at > STALE_HOURS

\* loadBenches -> _loadWithIDB up to the decision on the record read.  With
\* no database the features are fetched and returned; with no record the
\* call awaits the fetch; with a record it returns the cached features, and
\* starts the background fetch when the record is stale
LoadStart ==
  /\ store.calls["load"].pc = "idle"
  /\ \E dbOpens \in BOOLEAN :
       LET begun == [store.calls["load"] EXCEPT
                       !.before = store.record, !.at = store.now,
                       !.opened = dbOpens]
       IN store' = [store EXCEPT !.calls["load"] =
            IF ~dbOpens
            THEN [begun EXCEPT !.pc = "done", !.returned = TRUE,
                               !.result = NetworkFeatures,
                               !.source = "network", !.fetches = 1]
            ELSE IF ~store.record.present
            THEN [begun EXCEPT !.pc = "fetching", !.fetches = 1]
            ELSE IF Stale(store.record, store.now)
            THEN [begun EXCEPT !.pc = "revalidating", !.returned = TRUE,
                               !.result = store.record.features,
                               !.source = "cache", !.fetches = 1]
            ELSE [begun EXCEPT !.pc = "done", !.returned = TRUE,
                               !.result = store.record.features,
                               !.source = "cache"]]
  /\ OutsideStore

\* _fetchFromNetwork on a cold start: the response has arrived, the write is
\* started in the background and the features are returned
LoadFetched ==
  /\ store.calls["load"].pc = "fetching"
  /\ store' = [store EXCEPT !.calls["load"] =
       [@ EXCEPT !.pc = "bgwrite", !.returned = TRUE,
                 !.result = NetworkFeatures, !.source = "network"]]
  /\ OutsideStore

\* _fetchFromNetwork started by a stale load: the response has arrived
RevalidateFetched ==
  /\ store.calls["load"].pc = "revalidating"
  /\ store' = [store EXCEPT !.calls["load"] = [@ EXCEPT !.pc = "bgwrite"]]
  /\ OutsideStore

\* the background `_writeToIDB(db, features, metadata)` of _fetchFromNetwork
BackgroundWrite ==
  /\ store.calls["load"].pc = "bgwrite"
  /\ store' = [store EXCEPT
       !.record = Record(NetworkFeatures, store.now),
       !.calls["load"] = [@ EXCEPT !.pc = "done", !.wrote = NetworkFeatures]]
  /\ OutsideStore

\* an hour passes
Tick ==
  /\ store.now < MaxClock
  /\ store' = [store EXCEPT !.now = store.now + 1]
  /\ OutsideStore

\* the page before store.js has been called: no record, or the record of an
\* earlier visit
InitStore ==
  /\ RenderMarkers(InitFeatures(UiBenches, FALSE), GRID_ZOOM)
  /\ benchCount = built
  /\ UiSettled
  /\ \E record \in {NoRecord, Record(NetworkFeatures, 0)} :
       store = StoreWith(record)
  /\ bbox = BboxIdle
  /\ search = SearchIdle
  /\ overpass = OverpassIdle
  /\ sw = SwIdle
  /\ shown = ShownIdle

NextStore ==
  \/ \E c \in MergeCalls : MergeStart(c)
  \/ \E c \in MergeCalls : MergeRead(c)
  \/ \E c \in MergeCalls : MergeWrite(c)
  \/ LoadStart
  \/ LoadFetched
  \/ RevalidateFetched
  \/ BackgroundWrite
  \/ Tick

SpecStore == InitStore /\ [][NextStore]_vars

\* a call of mergeFeatures made when the one before it has returned, "m1"
\* first
MergeStartInTurn(c) ==
  /\ Running(store) = {}
  /\ c = "m2" => store.calls["m1"].pc = "done"
  /\ MergeStart(c)

\* the same with the calls of mergeFeatures made one after the other and
\* nothing else running
NextMerge ==
  \/ \E c \in MergeCalls : MergeStartInTurn(c)
  \/ \E c \in MergeCalls : MergeRead(c)
  \/ \E c \in MergeCalls : MergeWrite(c)

SpecMerge == InitStore /\ [][NextMerge]_vars

\* the new features whose id no cached feature carries
NotCached(cached, newFeatures) ==
  SelectSeq(newFeatures,
            LAMBDA f : \A k \in DOMAIN cached : cached[k] # f)

\* no id occurs twice
NoIdTwice(features) ==
  \A j, k \in DOMAIN features : features[j] = features[k] => j = k

\* the call c has returned what was new and the cache holds what it held
\* before, followed by that
MergedInto(c) ==
  LET call == store.calls[c]
  IN /\ call.result = NotCached(call.before.features, call.input)
     /\ store.record.features = call.before.features \o call.result
     /\ NoIdTwice(store.record.features)

\* C31: mergeFeatures returns exactly the new features whose id was not in
\* the cache, leaves the cache holding the previous features followed by
\* the returned ones with no id twice, and a second call with the same
\* input returns the empty list and leaves the cache unchanged.
C31_MergeDeduplicates ==
  /\ (store.calls["m1"].pc = "done" /\ store.calls["m2"].pc = "idle")
       => MergedInto("m1")
  /\ store.calls["m2"].pc = "done" =>
       /\ MergedInto("m2")
       /\ store.calls["m2"].input = store.calls["m1"].input =>
            (store.calls["m2"].result = <<>>
               /\ store.record = store.calls["m2"].before)

\* the part of it that holds: the same for the calls whose database opened
MergeDeduplicatesWhenOpened ==
  /\ (store.calls["m1"].pc = "done" /\ store.calls["m2"].pc = "idle"
        /\ store.calls["m1"].opened)
       => MergedInto("m1")
  /\ (store.calls["m2"].pc = "done" /\ store.calls["m2"].opened) =>
       /\ MergedInto("m2")
       /\ (store.calls["m2"].input = store.calls["m1"].input
             /\ store.calls["m1"].opened) =>
            (store.calls["m2"].result = <<>>
               /\ store.record = store.calls["m2"].before)

\* C32: once every pending write has completed, every feature a
\* mergeFeatures call reported as added (its database having opened) is in
\* the IndexedDB record, whatever the interleaving with another
\* mergeFeatures call and with the background write of a stale loadBenches.
C32_NoImportLost ==
  Running(store) = {} =>
    \A c \in MergeCalls :
      (store.calls[c].pc = "done" /\ store.calls[c].opened) =>
        IdsOf(store.calls[c].result) \subseteq IdsOf(store.record.features)

\* the same for one import alone and the load: fails as well, the
\* background write of _fetchFromNetwork puts the network's features in
\* place of the record, imported ones included
ImportSurvivesRevalidation ==
  (Running(store) = {} /\ store.calls["m2"].pc = "idle"
     /\ store.calls["m1"].pc = "done" /\ store.calls["m1"].opened) =>
    IdsOf(store.calls["m1"].result) \subseteq IdsOf(store.record.features)

\* the load found a record older than four hours
FoundStale(l) == l.at - l.before.cached_at > 4

MAX_RETRIES == 3
RETRY_DELAY == 4000
RETRYABLE == {429, 500, 503, 504}

\* what `await fetch(url, options)` may deliver: a status, or a rejection
\* (no network)
Rejected == 0
FetchResults == {200, 404} \cup RETRYABLE \cup {Rejected}

\* res.ok
Ok(status) == status \in 200..299

NextDelaySame(delay) == delay
\* delay *= 2
NextDelay(delay) == delay * 2

OutsideOverpass ==
  UNCHANGED <<registry, soloGroup, clusterGroup, pending, zoom,
              latestFilterState, latestSearchTerm, benchCount, built, imports,
              layersFrom, importPhase, uiVars, store, bbox, search, sw,
              shown>>

\* the call, up to the first `await fetch`
OverpassCall ==
  /\ overpass.pc = "idle"
  /\ overpass' = [overpass EXCEPT !.pc = "fetching", !.attempt = 1,
                                  !.delay = RETRY_DELAY]
  /\ OutsideOverpass

\* the fetch settles: the response is returned when OK, an error is thrown
\* on a status that is not retryable or at the last attempt (and when the
\* fetch itself rejects), otherwise the call sleeps `delay` ms
OverpassResponse ==
  /\ overpass.pc = "fetching"
  /\ \E status \in FetchResults :
       LET seen == [overpass EXCEPT !.statuses = Append(@, status)]
       IN overpass' =
            IF status = Rejected
            THEN [seen EXCEPT !.pc = "done", !.outcome = "threw"]
            ELSE IF Ok(status)
            THEN [seen EXCEPT !.pc = "done", !.outcome = "returned"]
            ELSE IF status \notin RETRYABLE \/ overpass.attempt = MAX_RETRIES
            THEN [seen EXCEPT !.pc = "done", !.outcome = "threw"]
            ELSE [seen EXCEPT !.pc = "sleeping"]
  /\ OutsideOverpass

\* the timer fires: delay doubles, the next attempt begins, or the loop
\* ends and the function returns undefined
OverpassWake ==
  /\ overpass.pc = "sleeping"
  /\ LET slept == [overpass EXCEPT !.waits = Append(@, overpass.delay),
                                   !.delay = NextDelay(overpass.delay),
                                   !.attempt = overpass.attempt + 1]
     IN overpass' =
          IF slept.attempt <= MAX_RETRIES
          THEN [slept EXCEPT !.pc = "fetching"]
          ELSE [slept EXCEPT !.pc = "done", !.outcome = "undefined"]
  /\ OutsideOverpass

InitOverpass ==
  /\ RenderMarkers(InitFeatures(UiBenches, FALSE), GRID_ZOOM)
  /\ benchCount = built
  /\ UiSettled
  /\ SideSettled

NextOverpass ==
  \/ OverpassCall
  \/ OverpassResponse
  \/ OverpassWake

\* every fetch settles and every timer fires
SpecOverpass ==
  /\ InitOverpass
  /\ [][NextOverpass]_vars
  /\ WF_vars(OverpassResponse)
  /\ WF_vars(OverpassWake)

\* the statuses received before the last one
EarlierStatuses == SubSeq(overpass.statuses, 1, Len(overpass.statuses) - 1)

\* what the call has done so far is what the contract allows
OverpassWithinContract ==
  LET n == Len(overpass.statuses)
      last == overpass.statuses[n]
  IN /\ overpass.attempt <= 3
     /\ n <= 3
     /\ \A k \in DOMAIN EarlierStatuses :
          EarlierStatuses[k] \in {429, 500, 503, 504}
     /\ overpass.waits = SubSeq(<<4000, 8000>>, 1, Len(overpass.waits))
     /\ overpass.pc = "fetching" => Len(overpass.waits) = overpass.attempt - 1
     /\ overpass.outcome # "undefined"
     /\ overpass.outcome = "returned" => last \in 200..299
     /\ overpass.outcome = "threw" =>
          \/ last = Rejected
          \/ last \notin 200..299 /\ last \notin {429, 500, 503, 504}
          \/ last \in {429, 500, 503, 504} /\ n = 3
     /\ overpass.pc = "done" => overpass.outcome \in {"returned", "threw"}

\* C34: _fetchOverpass terminates after at most 3 fetches: it returns the
\* first OK response, retries only on 429, 500, 503 and 504, waiting
\* 4000 ms before the second attempt and 8000 ms before the third, throws
\* on any other non-OK status and on a retryable one at the third attempt,
\* and never returns undefined.
C34_FetchOverpassTerminates ==
  /\ []OverpassWithinContract
  /\ (overpass.pc # "idle") ~> (overpass.pc = "done")

\* a call has thrown at its third attempt, after waiting 4000 and 8000 ms
C34_Witness ==
  /\ overpass.pc = "done"
  /\ overpass.outcome = "threw"
  /\ overpass.waits = <<4000, 8000>>
  /\ Len(overpass.statuses) = 3

\* ---------------------------------------------------------------------
\* bbox-select.js: draw mode, the pointer handlers, the panel and the
\* confirm handler, a step per event and per await.
\* ---------------------------------------------------------------------

OutsideBbox ==
  UNCHANGED <<registry, soloGroup, clusterGroup, pending, zoom,
              latestFilterState, latestSearchTerm, benchCount, built, imports,
              layersFrom, importPhase, uiVars, store, search, overpass, sw,
              shown>>

\* an event handler has run: which one, and whether it called _cleanup
After(b, event, cleaned) ==
  [b EXCEPT !.lastEvent = event, !.ranCleanup = cleaned]

\* _cleanup() can start one more panel-out animation
CanCleanup(b) == ~b.panelHidden => b.hidesPending < MaxAnims

\* _cleanup(): _removeRect, _exitDrawMode, panel out when it is not hidden,
\* confirm button enabled with its initial label
Cleanup(b) ==
  [b EXCEPT !.rect = FALSE, !.bboxBounds = FALSE,
            !.drawMode = FALSE, !.dragging = FALSE, !.mapDragging = TRUE,
            !.hidesPending = IF b.panelHidden THEN @ ELSE @ + 1,
            !.confirmDisabled = FALSE, !.confirmLabel = "import to map"]

\* _enterDrawMode()
EnterDrawMode(b) == [b EXCEPT !.drawMode = TRUE, !.mapDragging = FALSE]

\* click on the import toggle
ToggleClick ==
  /\ bbox.drawMode => CanCleanup(bbox)
  /\ bbox' = IF bbox.drawMode
             THEN After(Cleanup(bbox), "toggleOff", TRUE)
             ELSE After(EnterDrawMode(bbox), "toggleOn", FALSE)
  /\ OutsideBbox

\* _onPointerDown: _startDraw
PointerDown ==
  /\ bbox.drawMode
  /\ bbox' = After([bbox EXCEPT !.dragging = TRUE, !.rect = FALSE,
                                !.bboxBounds = FALSE, !.startLL = TRUE],
                   "pointer", FALSE)
  /\ OutsideBbox

\* _onPointerMove: _updateDraw
PointerMove ==
  /\ bbox.drawMode /\ bbox.dragging /\ bbox.startLL
  /\ bbox' = After([bbox EXCEPT !.rect = TRUE], "pointer", FALSE)
  /\ OutsideBbox

\* _onPointerUp: _endDraw, on a degenerate box or a real one
PointerUp ==
  /\ bbox.drawMode /\ bbox.dragging /\ bbox.startLL
  /\ \E degenerate \in BOOLEAN :
       bbox' = After(IF degenerate
                     THEN [bbox EXCEPT !.dragging = FALSE, !.rect = FALSE,
                                       !.bboxBounds = FALSE]
                     ELSE [bbox EXCEPT !.dragging = FALSE,
                                       !.bboxBounds = TRUE,
                                       !.panelHidden = FALSE],
                     "pointer", FALSE)
  /\ OutsideBbox

\* _onPointerCancel
PointerCancel ==
  /\ bbox.drawMode
  /\ bbox' = After([bbox EXCEPT !.dragging = FALSE, !.rect = FALSE,
                                !.bboxBounds = FALSE],
                   "pointer", FALSE)
  /\ OutsideBbox

\* keydown Escape: _cleanup only in draw mode or with the panel not hidden
EscapeKey ==
  /\ (bbox.drawMode \/ ~bbox.panelHidden) => CanCleanup(bbox)
  /\ bbox' = IF bbox.drawMode \/ ~bbox.panelHidden
             THEN After(Cleanup(bbox), "escape", TRUE)
             ELSE After(bbox, "escape", FALSE)
  /\ OutsideBbox

\* click on the cancel button of the panel (the panel is on screen)
CancelClick ==
  /\ ~bbox.panelHidden
  /\ CanCleanup(bbox)
  /\ bbox' = After(Cleanup(bbox), "cancel", TRUE)
  /\ OutsideBbox

\* click on the confirm button (on screen and not disabled), up to the
\* await of queryOverpass
ConfirmClick ==
  /\ ~bbox.panelHidden
  /\ ~bbox.confirmDisabled
  /\ IF ~bbox.bboxBounds
     THEN bbox' = After(bbox, "confirm", FALSE)
     ELSE \E h \in Handlers :
            /\ bbox.handlers[h] = "none"
            /\ \A g \in Handlers : g < h => bbox.handlers[g] # "none"
            /\ bbox' = After([bbox EXCEPT !.confirmDisabled = TRUE,
                                          !.confirmLabel = "querying",
                                          !.handlers[h] = "querying"],
                             "confirm", FALSE)
  /\ OutsideBbox

\* queryOverpass settles: benches, none, or an error
QuerySettles(h) ==
  /\ bbox.handlers[h] = "querying"
  /\ \E outcome \in {"nodes", "empty", "threw"} :
       bbox' = After(CASE outcome = "nodes" ->
                            [bbox EXCEPT !.confirmLabel = "saving",
                                         !.handlers[h] = "merging"]
                       [] outcome = "empty" ->
                            [bbox EXCEPT !.confirmLabel = "no benches found",
                                         !.handlers[h] = "timer"]
                       [] outcome = "threw" ->
                            [bbox EXCEPT !.confirmLabel = "failed",
                                         !.handlers[h] = "timer"],
                     "settled", FALSE)
  /\ OutsideBbox

\* mergeFeatures settles: _cleanup and the callback, or the catch block
MergeSettles(h) ==
  /\ bbox.handlers[h] = "merging"
  /\ \E merged \in BOOLEAN, added \in BOOLEAN :
       /\ merged => CanCleanup(bbox)
       /\ bbox' = IF merged
                  THEN After([Cleanup(bbox) EXCEPT
                                !.handlers[h] = "done",
                                !.callbacks = IF added THEN 1 ELSE @],
                             "settled", TRUE)
                  ELSE After([bbox EXCEPT !.confirmLabel = "failed",
                                          !.handlers[h] = "timer"],
                             "settled", FALSE)
  /\ OutsideBbox

\* the 2000 ms or 3000 ms timer of a handler fires
TimerFires(h) ==
  /\ bbox.handlers[h] = "timer"
  /\ bbox' = After([bbox EXCEPT !.confirmDisabled = FALSE,
                                !.confirmLabel = "import to map",
                                !.handlers[h] = "done"],
                   "settled", FALSE)
  /\ OutsideBbox

\* animateBboxPanelOut completes
PanelOutComplete ==
  /\ bbox.hidesPending > 0
  /\ bbox' = After([bbox EXCEPT !.panelHidden = TRUE,
                                !.hidesPending = @ - 1],
                   "settled", FALSE)
  /\ OutsideBbox

InitBbox ==
  /\ RenderMarkers(InitFeatures(UiBenches, FALSE), GRID_ZOOM)
  /\ benchCount = built
  /\ UiSettled
  /\ SideSettled

NextBbox ==
  \/ ToggleClick
  \/ PointerDown
  \/ PointerMove
  \/ PointerUp
  \/ PointerCancel
  \/ EscapeKey
  \/ CancelClick
  \/ ConfirmClick
  \/ \E h \in Handlers : QuerySettles(h)
  \/ \E h \in Handlers : MergeSettles(h)
  \/ \E h \in Handlers : TimerFires(h)
  \/ PanelOutComplete

SpecBbox == InitBbox /\ [][NextBbox]_vars

\* the imports whose query or merge has not settled
ImportsInFlight == {h \in Handlers : bbox.handlers[h] \in {"querying", "merging"}}

\* C35: at most one area import is in flight at any time: from the confirm
\* until its query and merge have settled no second Overpass query starts.
C35_OneImportInFlight == Cardinality(ImportsInFlight) <= 1

\* an import in flight keeps the confirm button disabled as long as no
\* _cleanup has run since it was confirmed
FullyReset ==
  /\ ~bbox.drawMode
  /\ ~bbox.dragging
  /\ ~bbox.rect
  /\ ~bbox.bboxBounds
  /\ bbox.mapDragging
  /\ ~bbox.confirmDisabled
  /\ bbox.confirmLabel = "import to map"

\* C36: after cancel, Escape or toggling the import button off the selector
\* is fully reset (draw mode off, no drag, no rectangle, no stored box, map
\* dragging enabled, confirm button enabled with its initial label), and in
\* every state a drag in progress implies draw mode.
C36_ResetAfterCancel ==
  /\ bbox.lastEvent \in {"cancel", "escape", "toggleOff"} => FullyReset
  /\ bbox.dragging => bbox.drawMode

\* every handler that runs _cleanup leaves the selector fully reset, and a
\* drag in progress implies draw mode
ResetAfterCleanup ==
  /\ bbox.ranCleanup => FullyReset
  /\ bbox.dragging => bbox.drawMode
  /\ bbox.mapDragging <=> ~bbox.drawMode

\* ---------------------------------------------------------------------
\* search.js: the input and keydown listeners and the debounce timer, on a
\* clock in milliseconds.
\* ---------------------------------------------------------------------

\* the delay of the debounce timer
DEBOUNCE_MS == 200

\* the clock advances by half the delay, up to MaxSearchTicks times
MaxSearchTicks == 6
TickMs == DEBOUNCE_MS \div 2

\* what the input element may hold after an input event
TypedValues == {"", "b", "be"}

OutsideSearch ==
  UNCHANGED <<registry, soloGroup, clusterGroup, pending, zoom,
              latestFilterState, latestSearchTerm, benchCount, built, imports,
              layersFrom, importPhase, uiVars, store, bbox, overpass, sw,
              shown>>

KeepTimeout(timers) == timers
\* clearTimeout(debounceTimer)
ClearTimeout(timers) == {}

\* a timer that is due fires before anything else happens
NoTimerDue == \A deadline \in search.timers : deadline > search.now

\* notifyListeners(): every listener is called with searchTerm
Notified(s, by) ==
  [s EXCEPT !.last = [by |-> by, term |-> s.searchTerm, at |-> s.now,
                      lastInputAt |-> s.lastInputAt, typed |-> s.typed,
                      escaped |-> s.escaped]]

\* an input event: the pending timer is cleared and a new one is set
SearchInput ==
  /\ NoTimerDue
  /\ \E typed \in TypedValues :
       search' =
         [search EXCEPT
            !.value = typed, !.typed = typed, !.escaped = FALSE,
            !.timers = ClearTimeout(@) \cup {search.now + DEBOUNCE_MS},
            !.runs = IF search.runs = 0 \/
                        search.now - search.lastInputAt >= DEBOUNCE_MS
                     THEN @ + 1 ELSE @,
            !.lastInputAt = search.now]
  /\ OutsideSearch

\* the debounce timer fires: searchTerm is read from the input element
DebounceFires ==
  /\ \E deadline \in search.timers :
       /\ deadline = search.now
       /\ search' =
            Notified([search EXCEPT !.searchTerm = search.value,
                                    !.timers = @ \ {deadline},
                                    !.timerNotifications = @ + 1],
                     "timer")
  /\ OutsideSearch

\* keydown Escape: the input and searchTerm are emptied; the timer stays
SearchEscape ==
  /\ NoTimerDue
  /\ search' = Notified([search EXCEPT !.value = "", !.searchTerm = "",
                                       !.escaped = TRUE],
                        "escape")
  /\ OutsideSearch

\* time passes
SearchTick ==
  /\ NoTimerDue
  /\ search.now < MaxSearchTicks * TickMs
  /\ search' = [search EXCEPT !.now = @ + TickMs]
  /\ OutsideSearch

InitSearch ==
  /\ RenderMarkers(InitFeatures(UiBenches, FALSE), GRID_ZOOM)
  /\ benchCount = built
  /\ UiSettled
  /\ SideSettled

NextSearch ==
  \/ SearchInput
  \/ DebounceFires
  \/ SearchEscape
  \/ SearchTick

SpecSearch == InitSearch /\ [][NextSearch]_vars

\* the runs of input events that ended at least 200 ms ago have each been
\* notified once, and the run still going on has not been
OneNotificationPerRun ==
  LET since == search.now - search.lastInputAt
  IN /\ search.timerNotifications <= search.runs
     /\ search.runs > 0 /\ since < 200 =>
          search.timerNotifications = search.runs - 1
     /\ since > 200 => search.timerNotifications = search.runs

\* C37: a run of input events each less than 200 ms after the previous one
\* produces exactly one notification, 200 ms after the last event and
\* carrying the final input value; Escape empties the input and notifies
\* the empty term, and no notification carries a non-empty term after it
\* until new input is typed.
C37_SearchDebounced ==
  /\ OneNotificationPerRun
  /\ search.last.by = "timer" =>
       /\ search.last.at = search.last.lastInputAt + 200
       /\ ~search.last.escaped => search.last.term = search.last.typed
  /\ search.last.by = "escape" => search.last.term = ""
  /\ search.last.escaped => search.last.term = ""
  /\ search.escaped => search.value = "" /\ search.searchTerm = ""

\* two runs of input events have each been notified once, and in the second
\* an Escape after non-empty input was followed by the run's timer
C37_Witness ==
  /\ search.runs = 2
  /\ search.timerNotifications = 2
  /\ search.last.by = "timer"
  /\ search.last.escaped
  /\ search.last.typed # ""

\* ---------------------------------------------------------------------
\* The visibility predicate: getCombinedPredicate of main.js applied to one
\* bench under one filter state and one search term.
\* ---------------------------------------------------------------------

\* filter states: the two selects and every combination of the checkboxes
VisibleFilterStates ==
  [condition : {"all", "good", "poor"}, material : {"all", "wood"},
   backrest : BOOLEAN, armrests : BOOLEAN, accessible : BOOLEAN,
   covered : BOOLEAN]

\* search terms: empty, blank, upper case with a trailing blank, no match
VisibleTerms == {<<>>, <<" ">>, <<"O", " ">>, <<"x">>}

\* benches: a flag reads FALSE when the property is false, null or missing;
\* notes are empty when the property is missing
VisibleProps ==
  {[Props(1, name, condition) EXCEPT
      !.material = material, !.backrest = flags[1], !.armrests = flags[2],
      !.accessible = flags[3], !.covered = flags[4], !.notes = notes] :
     name \in {<<"k">>, <<"O", "k">>}, condition \in {"good", "poor"},
     material \in {"wood", "metal"}, flags \in [1..4 -> BOOLEAN],
     notes \in {<<>>, <<"o">>}}

OutsideShown ==
  UNCHANGED <<registry, soloGroup, clusterGroup, pending, zoom,
              latestFilterState, latestSearchTerm, benchCount, built, imports,
              layersFrom, importPhase, uiVars, store, bbox, search, overpass,
              sw>>

\* getCombinedPredicate()(props)
ApplyPredicate ==
  /\ ~shown.asked
  /\ shown' = [shown EXCEPT
                 !.asked = TRUE,
                 !.visible = getCombinedPredicate(shown.state, shown.term,
                                                  shown.props)]
  /\ OutsideShown

InitVisible ==
  /\ RenderMarkers(InitFeatures(UiBenches, FALSE), GRID_ZOOM)
  /\ benchCount = built
  /\ UiSettled
  /\ store = StoreIdle
  /\ bbox = BboxIdle
  /\ search = SearchIdle
  /\ overpass = OverpassIdle
  /\ sw = SwIdle
  /\ \E state \in VisibleFilterStates, term \in VisibleTerms,
        props \in VisibleProps :
       shown = [ShownIdle EXCEPT !.state = state, !.term = term,
                                 !.props = props]

NextVisible == ApplyPredicate

SpecVisible == InitVisible /\ [][NextVisible]_vars

\* the filter predicate as stated: both selects pass and every checked flag
\* is truthy on the bench
FilterHolds(state, props) ==
  /\ state.condition \in {"all", props.condition}
  /\ state.material \in {"all", props.material}
  /\ \A flag \in {"backrest", "armrests", "accessible", "covered"} :
       state[flag] => props[flag]

\* the query is empty or blank
Blank(query) == \A i \in DOMAIN query : query[i] = " "

\* the search predicate as stated: the trimmed lower-cased query is a
\* substring of the name, the notes or the region
SearchHoldsAsStated(query, props) ==
  \/ Blank(query)
  \/ \E field \in {props.name, props.notes, props.region} :
       Includes(field, Trim(ToLowerCase(query)))

\* the same with the name, the notes and the region lower-cased as well
SearchHolds(query, props) ==
  \/ Blank(query)
  \/ \E field \in {props.name, props.notes, props.region} :
       Includes(ToLowerCase(field), Trim(ToLowerCase(query)))

\* with default filters and empty search the bench is visible
DefaultsShowAll ==
  shown.asked /\ shown.state = DefaultFilterState /\ shown.term = <<>> =>
    shown.visible

\* C38 as stated: a bench is visible exactly when it passes the filter
\* predicate and the search predicate, the latter holding for a blank query
\* and otherwise iff the trimmed lower-cased query is a substring of the
\* bench's name, notes or region; with default filters and empty search
\* every bench is visible.
C38_VisibleAsStated ==
  /\ shown.asked =>
       (shown.visible <=> /\ FilterHolds(shown.state, shown.props)
                          /\ SearchHoldsAsStated(shown.term, shown.props))
  /\ DefaultsShowAll

\* C38 (amended): a bench is visible exactly when it passes the filter
\* predicate and the search predicate, the latter holding for a blank query
\* and otherwise iff the trimmed lower-cased query is a substring of the
\* lower-cased name, notes or region of the bench; with default filters and
\* empty search every bench is visible.
C38_VisibleIffBothPredicates ==
  /\ shown.asked =>
       (shown.visible <=> /\ FilterHolds(shown.state, shown.props)
                          /\ SearchHolds(shown.term, shown.props))
  /\ DefaultsShowAll

\* a bench named "Ok" is shown for the query "O " with the backrest and
\* covered boxes checked
C38_Witness ==
  /\ shown.asked
  /\ shown.visible
  /\ shown.state.backrest /\ shown.state.covered
  /\ shown.term = <<"O", " ">>
  /\ shown.props.name = <<"O", "k">>

\* ---------------------------------------------------------------------
\* public/sw.js: the fetch listener, cacheTileFirst and networkFirst, on a
\* clock in days.
\* ---------------------------------------------------------------------

\* MAX_TILE_AGE, in days
MAX_TILE_AGE == 7

\* `new Date(0)`, in days before the start of the clock
Epoch == -20000

\* days the clock may advance, background refreshes that may be running
MaxSwDays == 8
MaxRefreshes == 1

\* what the network does with a fetch: it fails, or it answers with a
\* response that is ok or not and whose Date header is readable or not
NetworkOutcomes ==
  {[fails |-> TRUE, ok |-> FALSE, dated |-> FALSE]} \cup
  [fails : {FALSE}, ok : BOOLEAN, dated : BOOLEAN]

OutsideSw ==
  UNCHANGED <<registry, soloGroup, clusterGroup, pending, zoom,
              latestFilterState, latestSearchTerm, benchCount, built, imports,
              layersFrom, importPhase, uiVars, store, bbox, search, overpass,
              shown>>

\* cache.put(request, response) at the present time
Put(w, kind, net) ==
  [w EXCEPT !.caches[kind] = [present |-> TRUE, dated |-> net.dated,
                               date |-> w.now, cachedAt |-> w.now]]

\* Date.now() - new Date(cached.headers.get('date') || 0).getTime()
Age(entry, now) == now - (IF entry.dated THEN entry.date ELSE Epoch)

\* what a handled request looked like
Handled(w, kind, method, net) ==
  [NoRequest EXCEPT
     !.kind = kind, !.method = method,
     !.cachedBefore = kind \in CacheKinds /\ w.caches[kind].present,
     !.datedBefore = kind \in CacheKinds /\ w.caches[kind].dated,
     !.storedFor = IF kind \in CacheKinds /\ w.caches[kind].present
                   THEN w.now - w.caches[kind].cachedAt ELSE 0,
     !.netFails = net.fails,
     !.hadFallback = kind \in CacheKinds /\ w.caches[kind].present]

\* a request for a tile: cacheTileFirst
TileRequest ==
  /\ \E net \in NetworkOutcomes :
       LET cached == sw.caches["tile"]
           stale == Age(cached, sw.now) > MAX_TILE_AGE
           seen == Handled(sw, "tile", "GET", net)
       IN IF cached.present
          THEN /\ stale => sw.refreshes < MaxRefreshes
               /\ sw' = [sw EXCEPT
                           !.refreshes = IF stale THEN @ + 1 ELSE @,
                           !.last = [seen EXCEPT !.intercepted = TRUE,
                                                 !.served = "cache",
                                                 !.refreshed = stale]]
          ELSE sw' =
                 [(IF ~net.fails /\ net.ok THEN Put(sw, "tile", net) ELSE sw)
                  EXCEPT !.last = [seen EXCEPT
                                     !.intercepted = TRUE,
                                     !.waited = TRUE,
                                     !.served = IF net.fails THEN "503"
                                                ELSE "network"]]
  /\ OutsideSw

\* the background fetch of a stale tile settles
RefreshSettles ==
  /\ sw.refreshes > 0
  /\ \E net \in NetworkOutcomes :
       sw' = [(IF ~net.fails /\ net.ok THEN Put(sw, "tile", net) ELSE sw)
              EXCEPT !.refreshes = @ - 1]
  /\ OutsideSw

\* a request for the benches GeoJSON, the manifest or the Overpass API: the
\* listener returns without responding
PassThroughRequest ==
  /\ \E kind \in {"geojson", "manifest", "overpass"}, net \in NetworkOutcomes :
       sw' = [sw EXCEPT
                !.last = Handled(sw, kind,
                                 IF kind = "overpass" THEN "POST" ELSE "GET",
                                 net)]
  /\ OutsideSw

\* a request that is not http(s): the listener returns without responding
IgnoredRequest ==
  /\ \E net \in NetworkOutcomes :
       sw' = [sw EXCEPT !.last = Handled(sw, "extension", "GET", net)]
  /\ OutsideSw

\* any other request: networkFirst
ShellRequest ==
  /\ \E method \in {"GET", "POST"}, net \in NetworkOutcomes :
       LET cached == sw.caches["shell"]
           seen == [Handled(sw, "shell", method, net) EXCEPT
                      !.intercepted = TRUE, !.waited = TRUE]
       IN sw' =
            IF ~net.fails
            THEN [(IF net.ok /\ method = "GET" THEN Put(sw, "shell", net)
                   ELSE sw)
                  EXCEPT !.last = [seen EXCEPT !.served = "network"]]
            ELSE [sw EXCEPT
                    !.last = [seen EXCEPT
                                !.served = IF method # "GET" THEN "503"
                                           ELSE IF cached.present THEN "cache"
                                           ELSE "503"]]
  /\ OutsideSw

\* a day passes
SwTick ==
  /\ sw.now < MaxSwDays
  /\ sw' = [sw EXCEPT !.now = @ + 1]
  /\ OutsideSw

InitSw ==
  /\ RenderMarkers(InitFeatures(UiBenches, FALSE), GRID_ZOOM)
  /\ benchCount = built
  /\ UiSettled
  /\ SideSettled

NextSw ==
  \/ TileRequest
  \/ RefreshSettles
  \/ PassThroughRequest
  \/ IgnoredRequest
  \/ ShellRequest
  \/ SwTick

SpecSw == InitSw /\ [][NextSw]_vars

\* a cached tile is returned without waiting for the network, and an
\* uncached tile that cannot be fetched yields a 503
TilesCacheFirst ==
  /\ sw.last.kind = "tile" /\ sw.last.cachedBefore =>
       sw.last.served = "cache" /\ ~sw.last.waited
  /\ sw.last.kind = "tile" /\ ~sw.last.cachedBefore /\ sw.last.netFails =>
       sw.last.served = "503"

\* other GET requests get the network's answer, and the cached one (or a
\* 503) when the network fails
OthersNetworkFirst ==
  sw.last.kind = "shell" /\ sw.last.method = "GET" =>
    sw.last.served = IF ~sw.last.netFails THEN "network"
                     ELSE IF sw.last.hadFallback THEN "cache" ELSE "503"

\* requests for the GeoJSON, the manifest and the Overpass API are neither
\* intercepted nor cached
PassThroughUntouched ==
  /\ sw.last.kind \in {"geojson", "manifest", "overpass"} =>
       ~sw.last.intercepted
  /\ \A kind \in {"geojson", "manifest", "overpass"} :
       ~sw.caches[kind].present

StrategiesWithUndatedRefresh ==
  /\ TilesCacheFirst
  /\ sw.last.kind = "tile" /\ sw.last.cachedBefore =>
       (sw.last.refreshed <=> ~sw.last.datedBefore \/ sw.last.storedFor > 7)
  /\ OthersNetworkFirst
  /\ PassThroughUntouched

====
